---- MODULE Spec2Model ----
(***************************************************************************)
(* PDF extraction pipeline of the field-inspection backend:                *)
(*   checklists/utils.py       extract_inspections_from_pdf, the heuristic *)
(*                             strategies, process_inspection_pdf          *)
(*   checklists/ai_services.py AIDocumentProcessor.process_pdf             *)
(*   checklists/ai_schemas.py  the pydantic result schema                  *)
(*                                                                         *)
(* Conventions.                                                            *)
(*  - A confidence is an integer number of hundredths (65 is 0.65).        *)
(*  - An optional value is a sequence of length 0 (absent) or 1.           *)
(*  - A string that the schema measures and trims is a record              *)
(*    [id, lead, core, trail]: its identity, the number of leading         *)
(*    whitespace characters, the length of the trimmed text and the number *)
(*    of trailing whitespace characters.                                   *)
(*  - The text of a PDF is a sequence of lines, each one of the concrete   *)
(*    lines listed under LineText; every line ends with ";" so that no     *)
(*    regular expression of the code matches across two lines.             *)
(***************************************************************************)
EXTENDS Integers, Sequences, FiniteSets, TLC

\* ------------------------------------------------------------------ bounds

\* Longest PDF text, in lines.
MaxLines == 2

\* ------------------------------------------------------- generic helpers

None == << >>
Some(v) == << v >>
IsSome(o) == Len(o) = 1
Get(o) == o[1]

Min(a, b) == IF a <= b THEN a ELSE b

\* s[:n] of Python.
Take(s, n) == SubSeq(s, 1, Min(Len(s), n))

RECURSIVE Flatten(_)
Flatten(ss) == IF ss = << >> THEN << >> ELSE Head(ss) \o Flatten(Tail(ss))

Range(s) == { s[i] : i \in 1..Len(s) }

\* ------------------------------------------------------------------ text

\* The lines a PDF text is made of (the text each stands for is in the
\* comment; a text is the lines joined, each followed by "\n").
\*   T1  "Belt Scraper system 1-Inspection Checklist;"
\*   TS  "Belt Scraper system 3 - Inspection Checklist;"
\*   HG  "99...9 Check worn or missing blades;"   (a number of 5000 digits)
\*   PS  "Pump system 4;"
\*   HE  "Hydraulic equipment;"
\*   SP  "Safety procedure;"
\*   BL  "- Verify motor rotation direction;"
Lines == {"T1", "TS", "HG", "PS", "HE", "SP", "BL"}

\* Lines of a numbered task list, with a dot after the number and without:
\*   D1  "1. Inspect drive coupling guard;"
\*   D2  "2. Check belt tension daily;"
\*   N1  "1 Check worn or missing blades;"
\*   N2  "2 Check scraper frames and blades;"
NumberedLines == {"D1", "D2", "N1", "N2"}

\* The title of a second belt scraper system:
\*   T2  "Belt Scraper system 2-Inspection Checklist;"
SecondTitle == {"T2"}

\* The text extract_inspections_from_pdf substitutes when PyMuPDF is missing:
\* "Fallback inspection data - PyMuPDF not available for text extraction".
NoPyMuPDFText == << "FB" >>

Texts == UNION { [1..n -> Lines] : n \in 0..MaxLines }

\* --------------------------------------------- results of the strategies

\* One task and one system of the legacy list that the strategies and the
\* converter build: {"number": n, "description": d}, {"name": s, "tasks": [...]}.
Task(n, d) == [number |-> n, description |-> d]
System(nm, ts) == [name |-> nm, tasks |-> ts]

\* enumerate(descs, start=1) as tasks.
RECURSIVE NumberFrom(_, _)
NumberFrom(descs, n) ==
    IF descs = << >> THEN << >>
    ELSE << Task(n, Head(descs)) >> \o NumberFrom(Tail(descs), n + 1)

\* What a call of a strategy does: raise, or return a list of systems.
Returned(systems) == [raised |-> FALSE, systems |-> systems]
Raised == [raised |-> TRUE, systems |-> << >>]

\* sorted(tasks, key=number) and list.sort(key=number): stable, ascending.
RECURSIVE InsertByNumber(_, _)
InsertByNumber(sorted, t) ==
    IF sorted = << >> THEN << t >>
    ELSE IF Head(sorted).number <= t.number
         THEN << Head(sorted) >> \o InsertByNumber(Tail(sorted), t)
         ELSE << t >> \o sorted

RECURSIVE SortByNumber(_)
SortByNumber(ts) ==
    IF ts = << >> THEN << >>
    ELSE InsertByNumber(SortByNumber(SubSeq(ts, 1, Len(ts) - 1)), ts[Len(ts)])

\* int(str) raises ValueError on a digit string longer than this
\* (the interpreter's limit on integer string conversion).
IntMaxStrDigits == 4300

\* One match of a numbered-task regex: the number of digits (\d+) matched, the
\* value of int() of them, the description captured, its length and whether
\* it contains "check".
NumMatch(ndigits, num, desc, len, check) ==
    [ndigits |-> ndigits, num |-> num, description |-> desc, len |-> len, check |-> check]

\* --------------------------------------- strategy 0: extract_custom_user_systems

\* finditer(r'Belt Scraper system (\d+)-Inspection Checklist') in one line:
\* the numbers matched.
CustomTitleMatches(line) ==
    CASE line = "T1" -> << "1" >>
      [] line = "T2" -> << "2" >>
      [] OTHER -> << >>

\* finditer of the two task patterns in one line,
\*   1: (\d+)\s+(Check\s+[^|\n\r]+)     2: (\d+)\s+([A-Z][^|\n\r]+)
\* both case-insensitive.
CustomTaskMatches(pattern, line) ==
    CASE line = "HG" -> << NumMatch(5000, 0, "Check worn or missing blades;", 29, TRUE) >>
      [] line = "N1" -> << NumMatch(1, 1, "Check worn or missing blades;", 29, TRUE) >>
      [] line = "N2" -> << NumMatch(1, 2, "Check scraper frames and blades;", 32, TRUE) >>
      [] OTHER -> << >>

\* re.findall(r'Belt Conveyor Inspection') in one line: the matches.
BeltConveyorMatches(line) == << >>

MatchesIn(text, PerLine(_)) ==
    Flatten([i \in 1..Len(text) |-> PerLine(text[i])])

standard_tasks ==
    << "Check worn or missing blades",
       "Check scraper frames and blades",
       "Check adjustment of belt cleaner tension",
       "Check primary scarper",
       "Check secondary scraper",
       "Check tertiary scraper",
       "Check plough scraper" >>

\* The inner loop over the matches of one pattern: int() of the number,
\* the filter, the duplicate check and the break after 7 tasks.
RECURSIVE CustomCollect(_, _)
CustomCollect(ms, acc) ==
    IF ms = << >> \/ acc.raised THEN acc
    ELSE LET m == Head(ms) IN
         IF m.ndigits > IntMaxStrDigits THEN [acc EXCEPT !.raised = TRUE]
         ELSE IF m.len > 10 /\ m.num <= 10 /\ m.description \notin acc.seen /\ m.check
              THEN LET next == [acc EXCEPT
                                   !.tasks = Append(@, Task(m.num, m.description)),
                                   !.seen = @ \cup {m.description}]
                   IN  IF Len(next.tasks) >= 7 THEN next
                       ELSE CustomCollect(Tail(ms), next)
              ELSE CustomCollect(Tail(ms), acc)

CustomExtractedTasks(text) ==
    LET start == [tasks |-> << >>, seen |-> {}, raised |-> FALSE]
        p1 == CustomCollect(MatchesIn(text, LAMBDA l : CustomTaskMatches(1, l)), start)
    IN  CustomCollect(MatchesIn(text, LAMBDA l : CustomTaskMatches(2, l)), p1)

\* Lines 304-313: the extracted tasks sorted by their number and renumbered,
\* or the standard tasks.
CustomFinalTasks(extracted) ==
    IF extracted # << >>
    THEN LET sorted == Take(SortByNumber([i \in 1..Len(extracted) |->
                                             Task(extracted[i].number, extracted[i].description)]), 7)
         IN  [i \in 1..Len(sorted) |-> Task(i, sorted[i].description)]
    ELSE NumberFrom(standard_tasks, 1)

\* Lines 318-335: one system per distinct title, in order of the first match.
RECURSIVE CustomSystems(_, _, _)
CustomSystems(numbers, processed, tasks) ==
    IF numbers = << >> THEN << >>
    ELSE LET title == "Belt Scraper system " \o Head(numbers) \o "-Inspection Checklist" IN
         IF title \in processed
         THEN CustomSystems(Tail(numbers), processed, tasks)
         ELSE << System(title, Take(tasks, 7)) >>
              \o CustomSystems(Tail(numbers), processed \cup {title}, tasks)

\* str(i) for the system numbers 1..10 of lines 353-357.
DecimalOf(i) ==
    CASE i = 1 -> "1" [] i = 2 -> "2" [] i = 3 -> "3" [] i = 4 -> "4" [] i = 5 -> "5"
      [] i = 6 -> "6" [] i = 7 -> "7" [] i = 8 -> "8" [] i = 9 -> "9" [] OTHER -> "10"

extract_custom_user_systems(text) ==
    LET extracted == CustomExtractedTasks(text)
        final_tasks == CustomFinalTasks(extracted.tasks)
        titled == CustomSystems(MatchesIn(text, CustomTitleMatches), {}, final_tasks)
        conveyor_count == Len(MatchesIn(text, BeltConveyorMatches))
        system_count == Min(IF conveyor_count > 1 THEN conveyor_count ELSE 1, 10)
    IN  IF extracted.raised THEN Raised
        ELSE IF titled # << >> THEN Returned(titled)
        ELSE IF conveyor_count > 0
             THEN Returned([i \in 1..system_count |->
                     System("Belt Scraper system " \o DecimalOf(i) \o "-Inspection Checklist",
                            Take(final_tasks, 7))])
             ELSE Returned(<< >>)

\* ---------------------------------------- strategy 1: extract_belt_scraper_systems

\* finditer(r'Belt Scraper system (\d+)\s*-?\s*Inspection Checklist') in one
\* line: the numbers matched.
BeltTitleMatches(line) ==
    CASE line = "T1" -> << "1" >>
      [] line = "T2" -> << "2" >>
      [] line = "TS" -> << "3" >>
      [] OTHER -> << >>

RECURSIVE BeltSystems(_, _)
BeltSystems(numbers, processed) ==
    IF numbers = << >> THEN << >>
    ELSE LET title == "Belt Scraper System " \o Head(numbers) IN
         IF title \in processed
         THEN BeltSystems(Tail(numbers), processed)
         ELSE << System(title, NumberFrom(standard_tasks, 1)) >>
              \o BeltSystems(Tail(numbers), processed \cup {title})

extract_belt_scraper_systems(text) ==
    Returned(BeltSystems(MatchesIn(text, BeltTitleMatches), {}))

\* ------------------------------- strategy 1.5: extract_system_checklist_patterns

\* finditer(r'([A-Za-z\s]+system\s+\d+)(?:-Inspection\s+Checklist)?') in one
\* line: group 1 of each match, stripped.
SysTitleMatches(line) ==
    CASE line = "T1" -> << "Belt Scraper system 1" >>
      [] line = "T2" -> << "Belt Scraper system 2" >>
      [] line = "TS" -> << "Belt Scraper system 3" >>
      [] line = "PS" -> << "Pump system 4" >>
      [] OTHER -> << >>

\* finditer of the three task patterns in one line,
\*   1: (\d+)\s*[.\)]\s*(check|inspect|verify|test|examine)\s+([^.\n\r]+)
\*   2: (\d+)\s*[.\)]\s*([^.\n\r]{10,80})
\*   3: (check|inspect|verify|test|examine)\s+([^.\n\r]{5,80})
\* each match with: whether groups()[0] is a number, its digits and value,
\* the description built from the groups, its length, and whether it holds
\* one of the words status, date, remarks, signature.
SysTaskMatches(pattern, line) ==
    CASE pattern = 3 /\ line = "BL" ->
            << [numbered |-> FALSE, ndigits |-> 0, num |-> 0,
                description |-> "Verify motor rotation direction;", len |-> 31,
                skip |-> FALSE] >>
      [] pattern = 3 /\ line \in {"HG", "N1"} ->
            << [numbered |-> FALSE, ndigits |-> 0, num |-> 0,
                description |-> "Check worn or missing blades;", len |-> 29,
                skip |-> FALSE] >>
      [] pattern = 3 /\ line = "N2" ->
            << [numbered |-> FALSE, ndigits |-> 0, num |-> 0,
                description |-> "Check scraper frames and blades;", len |-> 32,
                skip |-> FALSE] >>
      [] pattern = 1 /\ line = "D1" ->
            << [numbered |-> TRUE, ndigits |-> 1, num |-> 1,
                description |-> "drive coupling guard;", len |-> 21, skip |-> FALSE] >>
      [] pattern = 2 /\ line = "D1" ->
            << [numbered |-> TRUE, ndigits |-> 1, num |-> 1,
                description |-> "Inspect drive coupling guard;", len |-> 29,
                skip |-> FALSE] >>
      [] pattern = 3 /\ line = "D1" ->
            << [numbered |-> FALSE, ndigits |-> 0, num |-> 0,
                description |-> "Inspect drive coupling guard;", len |-> 29,
                skip |-> FALSE] >>
      [] pattern = 1 /\ line = "D2" ->
            << [numbered |-> TRUE, ndigits |-> 1, num |-> 2,
                description |-> "belt tension daily;", len |-> 19, skip |-> FALSE] >>
      [] pattern = 2 /\ line = "D2" ->
            << [numbered |-> TRUE, ndigits |-> 1, num |-> 2,
                description |-> "Check belt tension daily;", len |-> 25, skip |-> FALSE] >>
      [] pattern = 3 /\ line = "D2" ->
            << [numbered |-> FALSE, ndigits |-> 0, num |-> 0,
                description |-> "Check belt tension daily;", len |-> 25, skip |-> FALSE] >>
      [] OTHER -> << >>

\* The keys of a dict filled in this order: the first occurrence of each.
RECURSIVE Distinct(_, _)
Distinct(s, seen) ==
    IF s = << >> THEN << >>
    ELSE IF Head(s) \in seen THEN Distinct(Tail(s), seen)
         ELSE << Head(s) >> \o Distinct(Tail(s), seen \cup {Head(s)})

\* text.lower().find(name.lower()): the first line that holds the name
\* (0 when none does).
FirstLineWith(text, name, from) ==
    LET hits == { i \in from..Len(text) : name \in Range(SysTitleMatches(text[i])) }
    IN  IF hits = {} THEN 0 ELSE CHOOSE i \in hits : \A j \in hits : i <= j

\* Lines 396-410: the text from this system's title to the next system's.
SysSection(text, names, i) ==
    LET start == FirstLineWith(text, names[i], 1)
        next == IF i + 1 <= Len(names)
                THEN FirstLineWith(text, names[i + 1], start + 1)
                ELSE 0
    IN  IF start = 0 THEN << >>
        ELSE IF next = 0 THEN SubSeq(text, start, Len(text))
        ELSE SubSeq(text, start, next - 1)

\* Lines 414-432: the tasks matched in a section, pattern by pattern.
RECURSIVE SysCollect(_, _)
SysCollect(ms, acc) ==
    IF ms = << >> \/ acc.raised THEN acc
    ELSE LET m == Head(ms) IN
         IF m.numbered /\ m.ndigits > IntMaxStrDigits THEN [acc EXCEPT !.raised = TRUE]
         ELSE LET task_num == IF m.numbered THEN m.num ELSE Len(acc.tasks) + 1 IN
              IF m.len > 10 /\ m.len < 100 /\ ~m.skip
              THEN SysCollect(Tail(ms),
                      [acc EXCEPT !.tasks = Append(@, Task(task_num, m.description))])
              ELSE SysCollect(Tail(ms), acc)

\* Lines 434-440: sorted by number, the first of each description kept.
RECURSIVE UniqueByDescription(_, _)
UniqueByDescription(ts, seen) ==
    IF ts = << >> THEN << >>
    ELSE IF Head(ts).description \in seen
         THEN UniqueByDescription(Tail(ts), seen)
         ELSE << Head(ts) >>
              \o UniqueByDescription(Tail(ts), seen \cup {Head(ts).description})

SysSectionTasks(section) ==
    LET ms == Flatten([p \in 1..3 |-> MatchesIn(section, LAMBDA l : SysTaskMatches(p, l))])
        got == SysCollect(ms, [tasks |-> << >>, raised |-> FALSE])
    IN  [raised |-> got.raised,
         tasks |-> Take(UniqueByDescription(SortByNumber(got.tasks), {}), 10)]

extract_system_checklist_patterns(text) ==
    LET names == Distinct(MatchesIn(text, SysTitleMatches), {})
        found == [i \in 1..Len(names) |-> SysSectionTasks(SysSection(text, names, i))]
        kept == { i \in 1..Len(names) : found[i].tasks # << >> }
        systems == [i \in 1..Len(names) |->
                       IF i \in kept
                       THEN << System(names[i] \o "-Inspection Checklist", found[i].tasks) >>
                       ELSE << >>]
    IN  IF \E i \in 1..Len(names) : found[i].raised THEN Raised
        ELSE Returned(Flatten(systems))

\* -------------------------------------------- strategy 2: extract_generic_systems

\* The names the four name patterns form in one line (groups joined by a
\* space, title-cased), of length 6 to 99.
GenericNameMatches(line) ==
    CASE line = "T1" -> {"Belt Scraper System", "System 1", "Inspection Checklist"}
      [] line = "T2" -> {"Belt Scraper System", "System 2", "Inspection Checklist"}
      [] line = "TS" -> {"Belt Scraper System", "System 3", "Inspection Checklist"}
      [] line = "PS" -> {"Pump System", "System 4"}
      [] line = "HE" -> {"Hydraulic Equipment"}
      [] line = "FB" -> {"Fallback Inspection", "Inspection Data"}
      [] OTHER -> {}

\* finditer of the six task patterns in one line: the last group, stripped,
\* and its length.
\*   1: ^\s*(\d+)[\.\)]\s*(.+)$   2: ^\s*[\-\*]\s*(.+)$   3: check\s+(.+)
\*   4: inspect\s+(.+)            5: verify\s+(.+)        6: test\s+(.+)
GenericTaskMatches(pattern, line) ==
    CASE pattern = 2 /\ line = "BL" ->
            << [description |-> "Verify motor rotation direction;", len |-> 31] >>
      [] pattern = 5 /\ line = "BL" ->
            << [description |-> "motor rotation direction;", len |-> 24] >>
      [] pattern = 3 /\ line \in {"HG", "N1"} ->
            << [description |-> "worn or missing blades;", len |-> 23] >>
      [] pattern = 3 /\ line = "N2" ->
            << [description |-> "scraper frames and blades;", len |-> 26] >>
      [] pattern = 1 /\ line = "D1" ->
            << [description |-> "Inspect drive coupling guard;", len |-> 29] >>
      [] pattern = 4 /\ line = "D1" ->
            << [description |-> "drive coupling guard;", len |-> 21] >>
      [] pattern = 1 /\ line = "D2" ->
            << [description |-> "Check belt tension daily;", len |-> 25] >>
      [] pattern = 3 /\ line = "D2" ->
            << [description |-> "belt tension daily;", len |-> 19] >>
      [] OTHER -> << >>

\* Lines 557-569: the matches of one pattern; the loop over them ends once
\* task_number exceeds 20.
RECURSIVE GenericCollect(_, _)
GenericCollect(ms, tasks) ==
    IF ms = << >> THEN tasks
    ELSE LET m == Head(ms) IN
         IF m.len > 10 /\ m.len < 200
         THEN LET more == Append(tasks, Task(Len(tasks) + 1, m.description)) IN
              IF Len(more) + 1 > 20 THEN more ELSE GenericCollect(Tail(ms), more)
         ELSE GenericCollect(Tail(ms), tasks)

RECURSIVE GenericTasks(_, _, _)
GenericTasks(text, pattern, tasks) ==
    IF pattern > 6 THEN tasks
    ELSE GenericTasks(text, pattern + 1,
            GenericCollect(MatchesIn(text, LAMBDA l : GenericTaskMatches(pattern, l)), tasks))

GenericSystemNames(text) == UNION { GenericNameMatches(text[i]) : i \in 1..Len(text) }

\* The orders in which list(system_names) may enumerate the set.
Enumerations(S) ==
    { f \in [1..Cardinality(S) -> S] : \A i, j \in 1..Cardinality(S) : f[i] = f[j] => i = j }

\* order is list(system_names).
extract_generic_systems(text, order) ==
    LET tasks == GenericTasks(text, 1, << >>)
        system_tasks == Take(tasks, 10)
        names == Take(order, 5)
    IN  Returned(IF system_tasks = << >> THEN << >>
                 ELSE [i \in 1..Len(names) |-> System(names[i], system_tasks)])

\* -------------------------------------------- strategy 3: extract_checklist_items

\* line.strip() of each line, and its length.
LineText(line) ==
    CASE line = "T1" -> "Belt Scraper system 1-Inspection Checklist;"
      [] line = "T2" -> "Belt Scraper system 2-Inspection Checklist;"
      [] line = "TS" -> "Belt Scraper system 3 - Inspection Checklist;"
      [] line = "HG" -> "99...9 Check worn or missing blades;"
      [] line = "PS" -> "Pump system 4;"
      [] line = "HE" -> "Hydraulic equipment;"
      [] line = "SP" -> "Safety procedure;"
      [] line = "BL" -> "- Verify motor rotation direction;"
      [] line = "D1" -> "1. Inspect drive coupling guard;"
      [] line = "D2" -> "2. Check belt tension daily;"
      [] line = "N1" -> "1 Check worn or missing blades;"
      [] line = "N2" -> "2 Check scraper frames and blades;"
      [] OTHER -> "Fallback inspection data - PyMuPDF not available for text extraction"

LineLen(line) ==
    CASE line = "T1" -> 43
      [] line = "T2" -> 43
      [] line = "TS" -> 45
      [] line = "HG" -> 5030
      [] line = "PS" -> 14
      [] line = "HE" -> 20
      [] line = "SP" -> 17
      [] line = "BL" -> 34
      [] line = "D1" -> 32
      [] line = "D2" -> 28
      [] line = "N1" -> 31
      [] line = "N2" -> 34
      [] OTHER -> 68

\* line.title() of each line.
LineTitle(line) ==
    CASE line = "T1" -> "Belt Scraper System 1-Inspection Checklist;"
      [] line = "T2" -> "Belt Scraper System 2-Inspection Checklist;"
      [] line = "TS" -> "Belt Scraper System 3 - Inspection Checklist;"
      [] line = "HG" -> "99...9 Check Worn Or Missing Blades;"
      [] line = "PS" -> "Pump System 4;"
      [] line = "HE" -> "Hydraulic Equipment;"
      [] line = "SP" -> "Safety Procedure;"
      [] line = "BL" -> "- Verify Motor Rotation Direction;"
      [] line = "D1" -> "1. Inspect Drive Coupling Guard;"
      [] line = "D2" -> "2. Check Belt Tension Daily;"
      [] line = "N1" -> "1 Check Worn Or Missing Blades;"
      [] line = "N2" -> "2 Check Scraper Frames And Blades;"
      [] OTHER -> "Fallback Inspection Data - Pymupdf Not Available For Text Extraction"

\* re.search of checklist_patterns[:2] in the line:
\*   checklist|inspection|maintenance|safety|procedure
\*   equipment|system|component|device|machinery
ItemsSystemLine(line) == line \in {"T1", "T2", "TS", "PS", "HE", "SP", "FB"}

\* re.search of checklist_patterns[2:]: task|item|step|check|verify|test|inspect
ItemsTaskLine(line) == line \in {"T1", "T2", "TS", "HG", "BL", "FB", "D1", "D2", "N1", "N2"}

\* re.match(r'^\d+[\.\)]\s*(.+)', line): group 1 and its length, if it matches.
ItemsNumbered(line) == None

\* The body of the loop over the lines (lines 646-683).
ItemsStep(acc, line) ==
    IF ItemsSystemLine(line)
    THEN IF LineLen(line) > 10 /\ LineLen(line) < 100
         THEN [inspections |->
                  IF IsSome(acc.current_system) /\ acc.current_tasks # << >>
                  THEN Append(acc.inspections,
                              System(Get(acc.current_system), acc.current_tasks))
                  ELSE acc.inspections,
               current_system |-> Some(LineTitle(line)),
               current_tasks |-> << >>]
         ELSE acc
    ELSE IF ItemsTaskLine(line)
    THEN IF LineLen(line) > 15 /\ LineLen(line) < 200
         THEN [acc EXCEPT !.current_tasks =
                  Append(@, Task(Len(@) + 1, LineText(line)))]
         ELSE acc
    ELSE IF IsSome(ItemsNumbered(line))
    THEN IF Get(ItemsNumbered(line)).len > 10
         THEN [acc EXCEPT !.current_tasks =
                  Append(@, Task(Len(@) + 1, Get(ItemsNumbered(line)).description))]
         ELSE acc
    ELSE acc

RECURSIVE ItemsScan(_, _)
ItemsScan(lines, acc) ==
    IF lines = << >> THEN acc ELSE ItemsScan(Tail(lines), ItemsStep(acc, Head(lines)))

extract_checklist_items(text) ==
    LET acc == ItemsScan(text, [inspections |-> << >>, current_system |-> None,
                                current_tasks |-> << >>])
    IN  Returned(IF IsSome(acc.current_system) /\ acc.current_tasks # << >>
                 THEN Append(acc.inspections,
                             System(Get(acc.current_system), acc.current_tasks))
                 ELSE acc.inspections)

\* ---------------------------------------- strategy 4: create_intelligent_fallback

\* 'belt' in text_lower or 'conveyor' in text_lower, and so on, for one line.
MentionsConveyor(line) == line \in {"T1", "T2", "TS", "D2"}
MentionsElectrical(line) == line \in {"BL"}
MentionsHydraulic(line) == line \in {"PS", "HE"}

AnyLine(text, Test(_)) == \E i \in 1..Len(text) : Test(text[i])

\* The four templates, lines 704-739.
BeltConveyorTemplate ==
    System("Belt Conveyor Inspection", NumberFrom(<<
        "Check belt alignment and tracking",
        "Inspect belt condition for wear and damage",
        "Check belt tension and adjustment",
        "Inspect pulleys and rollers",
        "Check belt cleaners and scrapers" >>, 1))

ElectricalTemplate ==
    System("Electrical Equipment Inspection", NumberFrom(<<
        "Check electrical connections and terminals",
        "Inspect motor condition and operation",
        "Test electrical safety systems",
        "Check control panel and switches",
        "Verify grounding and insulation" >>, 1))

HydraulicTemplate ==
    System("Pump and Hydraulic System Inspection", NumberFrom(<<
        "Check pump operation and performance",
        "Inspect hydraulic lines and connections",
        "Check fluid levels and quality",
        "Test pressure relief valves",
        "Inspect seals and gaskets for leaks" >>, 1))

GenericTemplate ==
    System("Equipment Inspection Checklist", NumberFrom(<<
        "Visual inspection of equipment condition",
        "Check for any visible damage or wear",
        "Verify proper operation and functionality",
        "Check safety features and protective guards",
        "Document any issues or recommendations" >>, 1))

\* The same templates with the electrical test made first.
create_intelligent_fallback_electrical_first(text) ==
    Returned(<<
        IF AnyLine(text, MentionsElectrical) THEN ElectricalTemplate
        ELSE IF AnyLine(text, MentionsConveyor) THEN BeltConveyorTemplate
        ELSE IF AnyLine(text, MentionsHydraulic) THEN HydraulicTemplate
        ELSE GenericTemplate
    >>)

\* The if / elif / else chain of lines 703-739.
create_intelligent_fallback(text) ==
    Returned(<<
        IF AnyLine(text, MentionsConveyor) THEN BeltConveyorTemplate
        ELSE IF AnyLine(text, MentionsElectrical) THEN ElectricalTemplate
        ELSE IF AnyLine(text, MentionsHydraulic) THEN HydraulicTemplate
        ELSE GenericTemplate
    >>)

\* ------------------------------------------------ ai_schemas.py: the schema

\* A string as the schema sees it.
Str(id, lead, core, trail) == [id |-> id, lead |-> lead, core |-> core, trail |-> trail]
\* A string without surrounding whitespace.
Text(id, len) == Str(id, 0, len, 0)
\* len(v) and v.strip().
RawLen(s) == s.lead + s.core + s.trail
Strip(s) == [s EXCEPT !.lead = 0, !.trail = 0]

DescriptionMinLength == 10
DescriptionMaxLength == 500
NameMinLength == 3
NameMaxLength == 200
\* ge=0.0 and le=1.0, in hundredths.
ConfidenceMin == 0
ConfidenceMax == 100

\* TaskSchema: the field constraints on the raw description, then
\* validate_description on the stripped one.
TaskSchemaValid(t) ==
    /\ RawLen(t.description) >= DescriptionMinLength
    /\ RawLen(t.description) <= DescriptionMaxLength
    /\ ~(Strip(t.description).core < 10)

validate_tasks_as_supplied(tasks) ==
    [i \in 1..Len(tasks) |->
        [number |-> IF IsSome(tasks[i].number) THEN Get(tasks[i].number) ELSE i,
         description |-> Strip(tasks[i].description)]]

\* SystemSchema.validate_tasks: at least one task; the tasks numbered from 1
\* in list order.
validate_tasks(tasks) ==
    [i \in 1..Len(tasks) |-> [number |-> i, description |-> Strip(tasks[i].description)]]

\* SystemSchema: the field constraints on the raw name, validate_name, the
\* tasks.
SystemSchemaValid(sys) ==
    /\ RawLen(sys.name) >= NameMinLength
    /\ RawLen(sys.name) <= NameMaxLength
    /\ \A i \in 1..Len(sys.tasks) : TaskSchemaValid(sys.tasks[i])
    /\ sys.tasks # << >>

SystemSchema(sys) == [name |-> Strip(sys.name), tasks |-> validate_tasks(sys.tasks)]

RECURSIVE SumTasks(_)
SumTasks(systems) ==
    IF systems = << >> THEN 0 ELSE Len(Head(systems).tasks) + SumTasks(Tail(systems))

validate_total_tasks_supplied(v, systems) == v

\* validate_total_systems and validate_total_tasks_count/validate_total_tasks:
\* the value supplied (v) is replaced by the count.
validate_total_systems(v, systems) == Len(systems)
validate_total_tasks(v, systems) == SumTasks(systems)

AIExtractionResultValidAnyConfidence(data) ==
    /\ IsSome(data.success)
    /\ IsSome(data.confidence)
    /\ IsSome(data.systems)
    /\ \A i \in 1..Len(Get(data.systems)) : SystemSchemaValid(Get(data.systems)[i])
    /\ Get(data.systems) # << >>
    /\ IsSome(data.total_systems)
    /\ IsSome(data.total_tasks)

\* AIExtractionResult(**data): every required field present, the confidence in
\* range, every system valid, at least one system.
AIExtractionResultValid(data) ==
    /\ IsSome(data.success)
    /\ IsSome(data.confidence)
    /\ Get(data.confidence) >= ConfidenceMin
    /\ Get(data.confidence) <= ConfidenceMax
    /\ IsSome(data.systems)
    /\ \A i \in 1..Len(Get(data.systems)) : SystemSchemaValid(Get(data.systems)[i])
    /\ Get(data.systems) # << >>
    /\ IsSome(data.total_systems)
    /\ IsSome(data.total_tasks)

AIExtractionResult(data) ==
    LET systems == [i \in 1..Len(Get(data.systems)) |-> SystemSchema(Get(data.systems)[i])] IN
    [success |-> Get(data.success),
     confidence |-> Get(data.confidence),
     processing_method |-> data.processing_method,
     systems |-> systems,
     total_systems |-> validate_total_systems(Get(data.total_systems), systems),
     total_tasks |-> validate_total_tasks(Get(data.total_tasks), systems),
     warnings |-> data.warnings]

\* (is_valid, parsed_result); the error message is left out.
validate_ai_response(response_data) ==
    IF AIExtractionResultValid(response_data)
    THEN [is_valid |-> TRUE, result |-> Some(AIExtractionResult(response_data))]
    ELSE [is_valid |-> FALSE, result |-> None]

\* The keyword arguments of one AIExtractionResult(...) or one provider payload.
Data(success, confidence, method, systems, total_systems, total_tasks, warnings) ==
    [success |-> success, confidence |-> confidence, processing_method |-> method,
     systems |-> systems, total_systems |-> total_systems, total_tasks |-> total_tasks,
     warnings |-> warnings]

RawTask(number, description) == [number |-> number, description |-> description]
RawSystem(name, tasks) == [name |-> name, tasks |-> tasks]

create_fallback_result_without_message(error_message) ==
    AIExtractionResult(Data(Some(FALSE), Some(0), "fallback",
        Some(<< RawSystem(Text("General Inspection Checklist", 28),
                  << RawTask(Some(1), Text("Visual inspection of equipment condition", 40)),
                     RawTask(Some(2), Text("Check for any visible damage or wear", 36)) >>) >>),
        Some(1), Some(2),
        << "AI processing failed" >>))

\* create_fallback_result: the result built when AI processing failed, with
\* the message in its one warning.
create_fallback_result(error_message) ==
    AIExtractionResult(Data(Some(FALSE), Some(0), "fallback",
        Some(<< RawSystem(Text("General Inspection Checklist", 28),
                  << RawTask(Some(1), Text("Visual inspection of equipment condition", 40)),
                     RawTask(Some(2), Text("Check for any visible damage or wear", 36)),
                     RawTask(Some(3), Text("Verify proper operation", 23)) >>) >>),
        Some(1), Some(3),
        << "AI processing failed: " \o error_message >>))

\* ------------------------------------------- ai_services.py: the adapters

Providers == {"openai", "claude", "google"}

\* What a provider call can meet before it has a payload: no page images or
\* no text to send, a non-200 status or a network error, a body that is not
\* JSON.
ProviderFaults == {"no_input", "http_error", "bad_json"}

\* The confidences a provider payload may carry, in hundredths.
ConfLevels == {20, 60, 65, 70, 71}

\* The systems of a provider payload.
PayloadSystems ==
    << RawSystem(Text("Pump A-12", 9),
          << RawTask(Some(5), Text("Check pump pressure gauge", 25)),
             RawTask(None, Text("Inspect coupling guard", 22)) >>) >>

\* The systems of a payload that lists one name twice, with different tasks.
PayloadSystemsSameNameTwice ==
    PayloadSystems
    \o << RawSystem(Text("Pump A-12", 9), << RawTask(Some(1), Text("Inspect coupling guard", 22)) >>) >>

\* The (total_systems, total_tasks) a provider may send with PayloadSystems:
\* the right ones and wrong ones.
PayloadTotals == { << 1, 2 >>, << 7, 0 >> }

\* The confidences of a payload that the schema does not take: 1.7, -0.2 and
\* none.
OutOfRangeConfidences == { Some(170), Some(-20), None }

\* The JSON objects a provider may answer with: well-formed ones (one of
\* them, of a confidence above every floor, with wrong totals; one with one
\* name twice), and ones the schema rejects: one without systems, one without
\* total_tasks, three without a confidence in range.
ProviderPayloads ==
    { Data(Some(ok), Some(c), "", Some(PayloadSystems), Some(1), Some(2), << >>) :
        ok \in BOOLEAN, c \in ConfLevels }
    \cup { Data(Some(TRUE), Some(71), "", Some(PayloadSystems), Some(tot[1]), Some(tot[2]), << >>) :
             tot \in PayloadTotals }
    \cup { Data(Some(TRUE), Some(100), "", Some(PayloadSystemsSameNameTwice), Some(2), Some(3), << >>) }
    \cup { Data(Some(TRUE), Some(100), "", Some(<< >>), Some(0), Some(0), << >>),
           Data(Some(TRUE), Some(100), "", Some(PayloadSystems), Some(1), None, << >>) }
    \cup { Data(Some(TRUE), c, "", Some(PayloadSystems), Some(1), Some(2), << >>) :
             c \in OutOfRangeConfidences }

Responses ==
    { [fault |-> Some(f), payload |-> None] : f \in ProviderFaults }
    \cup { [fault |-> None, payload |-> Some(d)] : d \in ProviderPayloads }

\* What a call of an adapter does: raise, or return a validated result.
AdapterReturned(result) == [raised |-> FALSE, result |-> Some(result)]
AdapterRaised == [raised |-> TRUE, result |-> None]

\* _process_with_openai and _process_with_claude on the provider's response:
\* AIServiceError on a fault or on a payload the schema rejects.
ProcessWith(method, response) ==
    IF IsSome(response.fault) THEN AdapterRaised
    ELSE LET extracted_data == [Get(response.payload) EXCEPT !.processing_method = method]
             checked == validate_ai_response(extracted_data)
         IN  IF checked.is_valid THEN AdapterReturned(Get(checked.result))
             ELSE AdapterRaised

_process_with_openai(response) == ProcessWith("gpt-4-vision", response)
_process_with_claude(response) == ProcessWith("claude-3.5-sonnet", response)

\* _process_with_google: the result is built from a fixed payload.
_process_with_google ==
    LET result_data ==
            Data(Some(TRUE), Some(60), "google-document-ai",
                 Some(<< RawSystem(Text("General Equipment Inspection", 28),
                            << RawTask(Some(1), Text("Perform visual inspection", 25)) >>) >>),
                 Some(1), Some(1), << >>)
        checked == validate_ai_response(result_data)
    IN  IF checked.is_valid THEN AdapterReturned(Get(checked.result)) ELSE AdapterRaised

OpenAIAcceptsAtFloor(result) == result.success /\ result.confidence >= 70
ClaudeAcceptsAnySuccess(result) == result.success
GoogleAcceptsAboveFloor(result) == result.success /\ result.confidence > 60

\* The gates of process_pdf and the gate of extract_inspections_from_pdf, on
\* a result.
OpenAIAccepts(result) == result.success /\ result.confidence > 70
ClaudeAccepts(result) == result.success /\ result.confidence > 60
GoogleAccepts(result) == result.success
CallerAccepts(ai_result) == ai_result.success /\ ai_result.confidence > 30

\* _convert_ai_result_to_legacy_format.
_convert_ai_result_to_legacy_format(ai_result) ==
    [i \in 1..Len(ai_result.systems) |->
        System(ai_result.systems[i].name.id,
               [j \in 1..Len(ai_result.systems[i].tasks) |->
                   Task(ai_result.systems[i].tasks[j].number,
                        ai_result.systems[i].tasks[j].description.id)])]

\* ------------------------------------------------------------------ state

\* How often process_inspection_pdf is run on the document.
MaxRuns == 2

VARIABLES
    PYMUPDF_AVAILABLE,        \* utils.py: import fitz succeeded
    AI_PROCESSING_AVAILABLE,  \* utils.py: import of ai_services succeeded
    ENABLE_AI,                \* ai_config.py: AI_CONFIG['PROCESSING']['ENABLE_AI']
    services_available,       \* AIDocumentProcessor: the providers with an API key
    pdf_readable,             \* whether fitz.open(pdf_path) succeeds
    pdf_text,                 \* the text of the PDF, once it has been read
    pc,                       \* the statement the run is at
    runs,                     \* runs of process_inspection_pdf started
    attempts,                 \* process_pdf: the providers called, in order
    last_response,            \* process_pdf: what the last provider call did
    accepted_by,              \* process_pdf: the provider whose result it returned
    ai_result,                \* extract_inspections_from_pdf: ai_result
    all_text,                 \* extract_inspections_from_pdf: all_text
    inspections,              \* extract_inspections_from_pdf: inspections
    invoked,                  \* the strategies called, in order, with what each did
    extract_outcome,          \* extract_inspections_from_pdf: running, returned or raised
    cursor,                   \* process_inspection_pdf: position in the loop over inspections
    error,                    \* str(e) of the exception being handled
    db,                       \* the InspectionSystem rows of the document, with their tasks
    processed,                \* InspectionPDF.processed
    processing_errors,        \* InspectionPDF.processing_errors
    returned,                 \* what the last run of process_inspection_pdf returned
    chain_names,              \* the system names the strategies returned in the latest run they ended
    candidate,                \* validate_ai_response: response_data
    validated,                \* what validate_ai_response returned for it
    revalidated,              \* what it returned for the data of that result
    fallback_result,          \* create_fallback_result: the message and the result
    pdf_path,                 \* _detect_document_type: the words of os.path.basename(pdf_path).lower()
    sample_text,              \* the words of the first pages of the document
    detect_pc,                \* the statement _detect_document_type is at
    doc,                      \* the handle fitz.open returned: none, open or closed
    filename_scores,          \* _detect_document_type: filename_scores
    total_scores,             \* _detect_document_type: total_scores
    document_type,            \* what _detect_document_type returned
    workers,                  \* the runs of process_inspection_pdf that share the document, each with its locals
    extraction                \* what extract_inspections_from_pdf returns for the shared document

config == << PYMUPDF_AVAILABLE, AI_PROCESSING_AVAILABLE, ENABLE_AI, services_available,
             pdf_readable >>
ai_vars == << attempts, last_response, accepted_by, ai_result >>
chain_vars == << all_text, inspections, invoked >>
record_vars == << db, processed, processing_errors, returned >>
validator_vars == << candidate, validated, revalidated, fallback_result >>
worker_vars == << workers, extraction >>
detect_vars == << pdf_path, sample_text, detect_pc, doc, filename_scores, total_scores,
                  document_type >>
vars == << config, pdf_text, pc, runs, ai_vars, chain_vars, extract_outcome, cursor, error,
           record_vars, chain_names, validator_vars, detect_vars, worker_vars >>

\* No run shares the document with another one.
WorkersIdle ==
    /\ workers = << >>
    /\ extraction = << >>

\* _detect_document_type has not been called.
DetectIdle ==
    /\ pdf_path = << >>
    /\ sample_text = << >>
    /\ detect_pc = "idle"
    /\ doc = "none"
    /\ filename_scores = << >>
    /\ total_scores = << >>
    /\ document_type = None

Init ==
    /\ PYMUPDF_AVAILABLE \in BOOLEAN
    /\ AI_PROCESSING_AVAILABLE \in BOOLEAN
    \* ai_services.py imports fitz: without PyMuPDF its import fails.
    /\ AI_PROCESSING_AVAILABLE => PYMUPDF_AVAILABLE
    /\ ENABLE_AI \in BOOLEAN
    /\ services_available \in SUBSET Providers
    /\ pdf_readable \in BOOLEAN
    /\ pdf_text = None
    /\ pc = "idle"
    /\ runs = 0
    /\ attempts = << >>
    /\ last_response = None
    /\ accepted_by = None
    /\ ai_result = None
    /\ all_text = << >>
    /\ inspections = << >>
    /\ invoked = << >>
    /\ extract_outcome = "none"
    /\ cursor = 1
    /\ error = ""
    /\ db = << >>
    /\ processed = FALSE
    /\ processing_errors = None
    /\ returned = None
    /\ chain_names = None
    /\ candidate = None
    /\ validated = None
    /\ revalidated = None
    /\ fallback_result = None
    /\ DetectIdle
    /\ WorkersIdle

\* ------------------------------------------- process_inspection_pdf: entry

\* process_inspection_pdf is called (by the post_save signal or by the
\* process endpoint) and calls extract_inspections_from_pdf.
StartProcess ==
    /\ pc = "idle"
    /\ runs < MaxRuns
    /\ runs' = runs + 1
    /\ pc' = "extract_text"
    /\ attempts' = << >>
    /\ last_response' = None
    /\ accepted_by' = None
    /\ ai_result' = None
    /\ all_text' = << >>
    /\ inspections' = << >>
    /\ invoked' = << >>
    /\ extract_outcome' = "running"
    /\ cursor' = 1
    /\ error' = ""
    /\ returned' = None
    /\ UNCHANGED << config, detect_vars, worker_vars, validator_vars, chain_names, pdf_text, db, processed, processing_errors >>

\* ------------------------------------ extract_inspections_from_pdf: lines 57-69

\* The first text extraction. fitz.open raises on a file it cannot read; the
\* except clause of line 231 logs and re-raises. The text read here is
\* overwritten (line 164) before anything reads it.
ExtractText ==
    /\ pc = "extract_text"
    /\ IF PYMUPDF_AVAILABLE /\ ~pdf_readable
       THEN /\ extract_outcome' = "raised"
            /\ error' = "cannot open document"
            /\ pc' = "except"
       ELSE /\ pc' = IF AI_PROCESSING_AVAILABLE THEN "openai" ELSE "legacy_text"
            /\ UNCHANGED << extract_outcome, error >>
    /\ UNCHANGED << config, detect_vars, worker_vars, validator_vars, chain_names, pdf_text, runs, ai_vars, chain_vars, cursor, record_vars >>

\* --------------------------------------------- process_pdf: lines 61-100

\* process_pdf_with_ai is called with the document type that
\* _detect_document_type (utils.py line 83) returns; the type only selects the
\* prompt sent to the provider and is left out. Nothing in the body of
\* process_pdf raises outside the three guarded calls, so its outer except
\* clause (line 98) and the caller's (utils.py line 104) are never entered.

\* What process_pdf saw of one provider call.
CallLog(provider, response, call) ==
    Some([provider |-> provider, response |-> response, raised |-> call.raised,
          result |-> call.result])

IsAvailableAlways(service) == TRUE

\* self.services_available[service]: the provider has an API key.
IsAvailable(service) == service \in services_available

\* TryOpenAI without the try of line 64: what the adapter raises reaches the
\* except clause of line 98.
TryOpenAIUnguarded ==
    /\ pc = "openai"
    /\ IF IsAvailable("openai")
       THEN \E response \in Responses :
               LET call == _process_with_openai(response) IN
               /\ attempts' = Append(attempts, "openai")
               /\ last_response' = CallLog("openai", Some(response), call)
               /\ IF call.raised
                  THEN /\ ai_result' = Some(create_fallback_result("Critical processing error"))
                       /\ pc' = "ai_gate"
                       /\ UNCHANGED accepted_by
                  ELSE IF OpenAIAccepts(Get(call.result))
                  THEN /\ ai_result' = call.result
                       /\ accepted_by' = Some("openai")
                       /\ pc' = "ai_gate"
                  ELSE /\ pc' = "claude"
                       /\ UNCHANGED << ai_result, accepted_by >>
       ELSE /\ pc' = "claude"
            /\ UNCHANGED ai_vars
    /\ UNCHANGED << config, detect_vars, worker_vars, validator_vars, chain_names, pdf_text, runs, chain_vars, extract_outcome, cursor, error,
                    record_vars >>

\* Lines 63-71.
TryOpenAI ==
    /\ pc = "openai"
    /\ IF IsAvailable("openai")
       THEN \E response \in Responses :
               LET call == _process_with_openai(response) IN
               /\ attempts' = Append(attempts, "openai")
               /\ last_response' = CallLog("openai", Some(response), call)
               /\ IF ~call.raised /\ OpenAIAccepts(Get(call.result))
                  THEN /\ ai_result' = call.result
                       /\ accepted_by' = Some("openai")
                       /\ pc' = "ai_gate"
                  ELSE /\ pc' = "claude"
                       /\ UNCHANGED << ai_result, accepted_by >>
       ELSE /\ pc' = "claude"
            /\ UNCHANGED ai_vars
    /\ UNCHANGED << config, detect_vars, worker_vars, validator_vars, chain_names, pdf_text, runs, chain_vars, extract_outcome, cursor, error,
                    record_vars >>

\* Lines 74-82.
TryClaude ==
    /\ pc = "claude"
    /\ IF IsAvailable("claude")
       THEN \E response \in Responses :
               LET call == _process_with_claude(response) IN
               /\ attempts' = Append(attempts, "claude")
               /\ last_response' = CallLog("claude", Some(response), call)
               /\ IF ~call.raised /\ ClaudeAccepts(Get(call.result))
                  THEN /\ ai_result' = call.result
                       /\ accepted_by' = Some("claude")
                       /\ pc' = "ai_gate"
                  ELSE /\ pc' = "google"
                       /\ UNCHANGED << ai_result, accepted_by >>
       ELSE /\ pc' = "google"
            /\ UNCHANGED ai_vars
    /\ UNCHANGED << config, detect_vars, worker_vars, validator_vars, chain_names, pdf_text, runs, chain_vars, extract_outcome, cursor, error,
                    record_vars >>

\* Lines 85-96: the Google attempt and, when it is not accepted either, the
\* fallback result.
TryGoogle ==
    /\ pc = "google"
    /\ pc' = "ai_gate"
    /\ IF IsAvailable("google")
       THEN LET call == _process_with_google IN
            /\ attempts' = Append(attempts, "google")
            /\ last_response' = CallLog("google", None, call)
            /\ IF ~call.raised /\ GoogleAccepts(Get(call.result))
               THEN /\ ai_result' = call.result
                    /\ accepted_by' = Some("google")
               ELSE /\ ai_result' =
                          Some(create_fallback_result("All AI services unavailable or failed"))
                    /\ UNCHANGED accepted_by
       ELSE /\ ai_result' = Some(create_fallback_result("All AI services unavailable or failed"))
            /\ UNCHANGED << attempts, last_response, accepted_by >>
    /\ UNCHANGED << config, detect_vars, worker_vars, validator_vars, chain_names, pdf_text, runs, chain_vars, extract_outcome, cursor, error,
                    record_vars >>

\* ----------------------------------- extract_inspections_from_pdf: lines 86-105

\* The caller's gate on the result of process_pdf_with_ai.
AIGate ==
    /\ pc = "ai_gate"
    /\ IF CallerAccepts(Get(ai_result))
       THEN /\ inspections' = _convert_ai_result_to_legacy_format(Get(ai_result))
            /\ extract_outcome' = "returned"
            /\ pc' = "persist"
       ELSE /\ pc' = "legacy_text"
            /\ UNCHANGED << inspections, extract_outcome >>
    \* process_pdf has returned: the provider's response is out of reach.
    /\ last_response' = None
    /\ UNCHANGED << config, detect_vars, worker_vars, validator_vars, chain_names, pdf_text, runs, attempts, accepted_by, ai_result, all_text,
                    invoked, cursor, error, record_vars >>

\* ---------------------------------- extract_inspections_from_pdf: lines 160-181

\* The texts the PDF may turn out to hold: the file does not change between
\* two reads.
ReadableTexts == IF IsSome(pdf_text) THEN { Get(pdf_text) } ELSE Texts

\* The legacy text extraction: the text of the pages with PyMuPDF, a fixed
\* sentence without it. inspections starts empty.
LegacyText ==
    /\ pc = "legacy_text"
    /\ inspections' = << >>
    /\ IF PYMUPDF_AVAILABLE
       THEN \E text \in ReadableTexts :
               /\ pdf_text' = Some(text)
               /\ all_text' = text
       ELSE /\ all_text' = NoPyMuPDFText
            /\ UNCHANGED pdf_text
    /\ pc' = "custom"
    /\ UNCHANGED << config, detect_vars, worker_vars, validator_vars, chain_names, runs, ai_vars, invoked, extract_outcome, cursor, error,
                    record_vars >>

\* [inspection['name'] for inspection in inspections].
Names(systems) == [i \in 1..Len(systems) |-> systems[i].name]

\* One entry of the log of strategy calls.
Invocation(name, call) == [name |-> name, raised |-> call.raised, systems |-> call.systems]

\* ---------------------------------- extract_inspections_from_pdf: lines 183-229

\* Strategy 0, lines 186-189. The call is not guarded: what it raises reaches
\* the except clause of line 231, which re-raises.
StrategyCustom ==
    /\ pc = "custom"
    /\ LET call == extract_custom_user_systems(all_text) IN
       /\ invoked' = Append(invoked, Invocation("custom", call))
       /\ IF call.raised
          THEN /\ extract_outcome' = "raised"
               /\ error' = "Exceeds the limit (4300 digits) for integer string conversion"
               /\ pc' = "except"
               /\ UNCHANGED inspections
          ELSE /\ inspections' = inspections \o call.systems
               /\ pc' = "belt"
               /\ UNCHANGED << extract_outcome, error >>
    /\ UNCHANGED << config, detect_vars, worker_vars, validator_vars, chain_names, pdf_text, runs, ai_vars, all_text, cursor, record_vars >>

\* Strategy 1, lines 192-196.
StrategyBelt ==
    /\ pc = "belt"
    /\ IF inspections = << >>
       THEN LET call == extract_belt_scraper_systems(all_text) IN
            /\ invoked' = Append(invoked, Invocation("belt", call))
            /\ inspections' = inspections \o call.systems
       ELSE UNCHANGED << invoked, inspections >>
    /\ pc' = "syscheck"
    /\ UNCHANGED << config, detect_vars, worker_vars, validator_vars, chain_names, pdf_text, runs, ai_vars, all_text, extract_outcome, cursor, error,
                    record_vars >>

\* Strategy 1.5, lines 199-203.
StrategySysCheck ==
    /\ pc = "syscheck"
    /\ IF inspections = << >>
       THEN LET call == extract_system_checklist_patterns(all_text) IN
            /\ invoked' = Append(invoked, Invocation("syscheck", call))
            /\ IF call.raised
               THEN /\ extract_outcome' = "raised"
                    /\ error' = "Exceeds the limit (4300 digits) for integer string conversion"
                    /\ pc' = "except"
                    /\ UNCHANGED inspections
               ELSE /\ inspections' = inspections \o call.systems
                    /\ pc' = "generic"
                    /\ UNCHANGED << extract_outcome, error >>
       ELSE /\ pc' = "generic"
            /\ UNCHANGED << invoked, inspections, extract_outcome, error >>
    /\ UNCHANGED << config, detect_vars, worker_vars, validator_vars, chain_names, pdf_text, runs, ai_vars, all_text, cursor, record_vars >>

\* Strategy 2, lines 206-214: the block of lines 206-220 is entered when
\* nothing was found so far and PyMuPDF is there. list(system_names) is in the
\* iteration order of a set.
StrategyGeneric ==
    /\ pc = "generic"
    /\ IF inspections = << >> /\ PYMUPDF_AVAILABLE
       THEN \E order \in Enumerations(GenericSystemNames(all_text)) :
               LET call == extract_generic_systems(all_text, order) IN
               /\ invoked' = Append(invoked, Invocation("generic", call))
               /\ inspections' = inspections \o call.systems
               /\ pc' = "items"
       ELSE /\ pc' = "fallback"
            /\ UNCHANGED << invoked, inspections >>
    /\ UNCHANGED << config, detect_vars, worker_vars, validator_vars, chain_names, pdf_text, runs, ai_vars, all_text, extract_outcome, cursor, error,
                    record_vars >>

\* Strategy 3, lines 216-220: inside the same block, with no test of
\* inspections before it.
StrategyItems ==
    /\ pc = "items"
    /\ LET call == extract_checklist_items(all_text) IN
       /\ invoked' = Append(invoked, Invocation("items", call))
       /\ inspections' = inspections \o call.systems
    /\ pc' = "fallback"
    /\ UNCHANGED << config, detect_vars, worker_vars, validator_vars, chain_names, pdf_text, runs, ai_vars, all_text, extract_outcome, cursor, error,
                    record_vars >>

\* Strategy 4 and the return, lines 223-229.
StrategyFallback ==
    /\ pc = "fallback"
    /\ IF inspections = << >>
       THEN LET call == create_intelligent_fallback(all_text) IN
            /\ invoked' = Append(invoked, Invocation("fallback", call))
            /\ inspections' = inspections \o call.systems
       ELSE UNCHANGED << invoked, inspections >>
    /\ chain_names' = Some(Names(inspections'))
    /\ extract_outcome' = "returned"
    /\ pc' = "persist"
    /\ UNCHANGED << config, detect_vars, worker_vars, validator_vars, pdf_text, runs, ai_vars, all_text, cursor, error, record_vars >>

\* ------------------------------------------ process_inspection_pdf: lines 769-809

HasSystemNever(rows, name) == FALSE

\* InspectionSystem.objects.filter(name=system_name, pdf=inspection_pdf).first(),
\* lines 772-775, as a truth value.
HasSystem(rows, name) == \E i \in 1..Len(rows) : rows[i].name = name

\* One turn of the loop over inspections, lines 769-794: a system whose name
\* the document already has is skipped, another one is created with its tasks.
\* A query may fail (db_ok false): the except clause of line 802 takes over.
PersistStep ==
    /\ pc = "persist"
    /\ cursor <= Len(inspections)
    /\ \E db_ok \in BOOLEAN :
          IF db_ok
          THEN /\ db' = IF HasSystem(db, inspections[cursor].name) THEN db
                        ELSE Append(db, inspections[cursor])
               /\ cursor' = cursor + 1
               /\ UNCHANGED << pc, error >>
          ELSE /\ error' = "database is locked"
               /\ pc' = "except"
               /\ UNCHANGED << db, cursor >>
    /\ UNCHANGED << config, detect_vars, worker_vars, validator_vars, chain_names, pdf_text, runs, ai_vars, chain_vars, extract_outcome, processed,
                    processing_errors, returned >>

\* Lines 797-800.
MarkProcessed ==
    /\ pc = "persist"
    /\ cursor > Len(inspections)
    /\ processed' = TRUE
    /\ returned' = Some(TRUE)
    /\ pc' = "idle"
    /\ UNCHANGED << config, detect_vars, worker_vars, validator_vars, chain_names, pdf_text, runs, ai_vars, chain_vars, extract_outcome, cursor,
                    error, db, processing_errors >>

\* Lines 802-809.
HandleError ==
    /\ pc = "except"
    /\ processing_errors' = Some("Error processing PDF: " \o error)
    /\ returned' = Some(FALSE)
    /\ pc' = "idle"
    /\ UNCHANGED << config, detect_vars, worker_vars, validator_vars, chain_names, pdf_text, runs, ai_vars, chain_vars, extract_outcome, cursor,
                    error, db, processed >>

Next ==
    \/ StartProcess
    \/ ExtractText
    \/ TryOpenAI
    \/ TryClaude
    \/ TryGoogle
    \/ AIGate
    \/ LegacyText
    \/ StrategyCustom
    \/ StrategyBelt
    \/ StrategySysCheck
    \/ StrategyGeneric
    \/ StrategyItems
    \/ StrategyFallback
    \/ PersistStep
    \/ MarkProcessed
    \/ HandleError

Spec == Init /\ [][Next]_vars

\* ------------------------------------ the strategies on numbered task lists

\* Longest text of a document with numbered task lists, in lines.
MaxChainLines == 3

ChainLines == Lines \cup NumberedLines \cup SecondTitle

ChainTexts == UNION { [1..n -> ChainLines] : n \in 0..MaxChainLines }

\* A deployment without the AI module (its import failed: lines 22-29 of
\* utils.py), given a document whose text is one of ChainTexts.
InitChain ==
    /\ PYMUPDF_AVAILABLE \in BOOLEAN
    /\ AI_PROCESSING_AVAILABLE = FALSE
    /\ ENABLE_AI = FALSE
    /\ services_available = {}
    /\ pdf_readable = TRUE
    /\ pdf_text \in { Some(text) : text \in ChainTexts }
    /\ pc = "idle"
    /\ runs = 0
    /\ attempts = << >>
    /\ last_response = None
    /\ accepted_by = None
    /\ ai_result = None
    /\ all_text = << >>
    /\ inspections = << >>
    /\ invoked = << >>
    /\ extract_outcome = "none"
    /\ cursor = 1
    /\ error = ""
    /\ db = << >>
    /\ processed = FALSE
    /\ processing_errors = None
    /\ returned = None
    /\ chain_names = None
    /\ candidate = None
    /\ validated = None
    /\ revalidated = None
    /\ fallback_result = None
    /\ DetectIdle
    /\ WorkersIdle

NextChain ==
    \/ StartProcess
    \/ ExtractText
    \/ LegacyText
    \/ StrategyCustom
    \/ StrategyBelt
    \/ StrategySysCheck
    \/ StrategyGeneric
    \/ StrategyItems
    \/ StrategyFallback
    \/ PersistStep
    \/ MarkProcessed
    \/ HandleError

SpecChain == InitChain /\ [][NextChain]_vars

\* ------------------------------------------------------- the validator alone

\* result.dict(): the data of a validated result, as keyword arguments.
ResultData(result) ==
    Data(Some(result.success), Some(result.confidence), result.processing_method,
         Some([i \in 1..Len(result.systems) |->
                 RawSystem(result.systems[i].name,
                           [j \in 1..Len(result.systems[i].tasks) |->
                               RawTask(Some(result.systems[i].tasks[j].number),
                                       result.systems[i].tasks[j].description)])]),
         Some(result.total_systems), Some(result.total_tasks), result.warnings)

\* The names a candidate system may carry: plain, padded, of one character
\* inside padding, too short, of 200 characters after a space, too long.
CandidateNames ==
    { Text("Pump A-12", 9), Str("Pump A-12", 2, 9, 1), Str("A", 1, 1, 1), Text("AB", 2),
      Str("N200", 1, 200, 0), Text("N201", 201) }

\* The descriptions a candidate task may carry: plain, padded, of 9
\* characters inside padding, of 9 characters, of 500 characters after a
\* space, of 501 characters.
CandidateDescriptions ==
    { Text("Check pump pressure gauge", 25), Str("Check pump pressure gauge", 3, 25, 2),
      Str("Check oil", 2, 9, 2), Text("Check oil", 9),
      Str("D500", 1, 500, 0), Text("D501", 501) }

\* The numbers the two tasks of a candidate system may carry: absent, one
\* absent, descending, duplicated, with a gap, already 1 and 2.
CandidateNumberings ==
    { << None, None >>, << Some(5), None >>, << Some(2), Some(1) >>, << Some(3), Some(3) >>,
      << Some(1), Some(3) >>, << Some(1), Some(2) >> }

\* The task lists of a candidate system: none, one task, two tasks.
CandidateTaskLists ==
    { << >> }
    \cup { << RawTask(n, d) >> : n \in {None, Some(4)}, d \in CandidateDescriptions }
    \cup { << RawTask(ns[1], Text("Check pump pressure gauge", 25)),
              RawTask(ns[2], Str("Inspect coupling guard", 1, 22, 0)) >> :
             ns \in CandidateNumberings }

CandidateSystems == { RawSystem(nm, ts) : nm \in CandidateNames, ts \in CandidateTaskLists }

\* The systems of a candidate: absent, none, one, or two (the second one
\* with the same name or another).
CandidateSystemLists ==
    { None, Some(<< >>) }
    \cup { Some(<< sys >>) : sys \in CandidateSystems }
    \cup { Some(<< RawSystem(Text("Pump A-12", 9), ts),
                   RawSystem(nm, << RawTask(Some(1), Text("Check pump pressure gauge", 25)) >>) >>) :
             nm \in { Text("Pump A-12", 9), Text("Fan B-7", 7) },
             ts \in { t \in CandidateTaskLists : Len(t) = 2 } }

\* The confidences of a candidate, in hundredths: absent, below 0, the two
\* ends of the range, inside it, above 1.
CandidateConfidences == { None, Some(-20), Some(0), Some(65), Some(100), Some(170) }

\* The candidates handed to validate_ai_response.
Candidates ==
    { Data(ok, c, "gpt-4-vision", systems, tot[1], tot[2], << >>) :
        ok \in { None, Some(TRUE) }, c \in CandidateConfidences,
        systems \in CandidateSystemLists,
        tot \in { << Some(1), Some(2) >>, << Some(7), Some(0) >> } }

\* The messages create_fallback_result is called with.
ErrorMessages ==
    { "", "All AI services unavailable or failed", "Critical processing error: timed out" }

InitValidate ==
    /\ PYMUPDF_AVAILABLE = FALSE
    /\ AI_PROCESSING_AVAILABLE = FALSE
    /\ ENABLE_AI = FALSE
    /\ services_available = {}
    /\ pdf_readable = FALSE
    /\ pdf_text = None
    /\ pc = "idle"
    /\ runs = 0
    /\ attempts = << >>
    /\ last_response = None
    /\ accepted_by = None
    /\ ai_result = None
    /\ all_text = << >>
    /\ inspections = << >>
    /\ invoked = << >>
    /\ extract_outcome = "none"
    /\ cursor = 1
    /\ error = ""
    /\ db = << >>
    /\ processed = FALSE
    /\ processing_errors = None
    /\ returned = None
    /\ chain_names = None
    /\ candidate \in { Some(d) : d \in Candidates }
    /\ validated = None
    /\ revalidated = None
    /\ fallback_result = None
    /\ DetectIdle
    /\ WorkersIdle

pipeline_vars == << config, detect_vars, worker_vars, pdf_text, pc, runs, ai_vars, chain_vars, extract_outcome, cursor,
                    error, record_vars, chain_names >>

\* validate_ai_response(response_data).
Validate ==
    /\ validated = None
    /\ validated' = Some(validate_ai_response(Get(candidate)))
    /\ UNCHANGED << pipeline_vars, candidate, revalidated, fallback_result >>

\* validate_ai_response on the data of the result it returned.
Revalidate ==
    /\ IsSome(validated)
    /\ Get(validated).is_valid
    /\ revalidated = None
    /\ revalidated' = Some(validate_ai_response(ResultData(Get(Get(validated).result))))
    /\ UNCHANGED << pipeline_vars, candidate, validated, fallback_result >>

\* create_fallback_result(error_message).
CreateFallback ==
    /\ fallback_result = None
    /\ \E error_message \in ErrorMessages :
          fallback_result' = Some([error_message |-> error_message,
                                   result |-> create_fallback_result(error_message)])
    /\ UNCHANGED << pipeline_vars, candidate, validated, revalidated >>

NextValidate ==
    \/ Validate
    \/ Revalidate
    \/ CreateFallback

SpecValidate == InitValidate /\ [][NextValidate]_vars

\* ------------------------------------- _detect_document_type: lines 812-886
\*
\* A filename and a text are sequences of words, joined by "_" or by blanks,
\* so that no keyword lies across two words:
\*   belt, pump, panel, inspection   one keyword each
\*   electrical                      holds the keywords 'electrical' and 'electric'
\*   report                          holds no keyword
\* 'electrical_panel_inspection.pdf' is << "electrical", "panel", "inspection" >>.

MaxNameWords == 3
MaxSampleWords == 2

FileWords == {"belt", "pump", "electrical", "panel", "inspection", "report"}
SampleWords == {"belt", "pump", "report"}

\* The keywords that occur in a word, each once.
KeywordsIn(word) ==
    CASE word = "belt" -> {"belt"}
      [] word = "pump" -> {"pump"}
      [] word = "electrical" -> {"electrical", "electric"}
      [] word = "panel" -> {"panel"}
      [] word = "inspection" -> {"inspection"}
      [] OTHER -> {}

\* The keys of equipment_indicators in the order of the literal, lines 825-833.
Categories ==
    << "conveyor", "electrical", "hydraulic", "mechanical", "safety", "hvac", "general" >>

equipment_indicators ==
    [conveyor   |-> << "belt", "conveyor", "scraper", "pulley", "roller" >>,
     electrical |-> << "electrical", "motor", "electric", "control", "panel", "circuit" >>,
     hydraulic  |-> << "hydraulic", "pump", "fluid", "pressure", "valve", "cylinder" >>,
     mechanical |-> << "mechanical", "bearing", "gear", "shaft", "coupling", "vibration" >>,
     safety     |-> << "safety", "emergency", "guard", "lockout", "loto", "hazard" >>,
     hvac       |-> << "hvac", "air", "ventilation", "cooling", "heating", "filter" >>,
     general    |-> << "inspection", "maintenance", "checklist", "audit", "service" >>]

\* keyword in text, and text.count(keyword).
KeywordIn(keyword, text) == \E i \in 1..Len(text) : keyword \in KeywordsIn(text[i])
KeywordCount(keyword, text) ==
    Cardinality({ i \in 1..Len(text) : keyword \in KeywordsIn(text[i]) })

RECURSIVE SumCounts(_, _)
SumCounts(keywords, text) ==
    IF keywords = << >> THEN 0
    ELSE KeywordCount(Head(keywords), text) + SumCounts(Tail(keywords), text)

\* Line 839: sum(1 for keyword in keywords if keyword in filename).
FilenameScore(category, filename) ==
    LET keywords == equipment_indicators[category]
    IN  Cardinality({ k \in 1..Len(keywords) : KeywordIn(keywords[k], filename) })

\* Line 858: sum(sample_text.count(keyword) for keyword in keywords).
ContentScore(category, text) == SumCounts(equipment_indicators[category], text)

\* A dict of scores: its items in insertion order.
Score(category, score) == [category |-> category, score |-> score]
Positive(scores) == SelectSeq(scores, LAMBDA item : item.score > 0)
Keys(scores) == { scores[i].category : i \in 1..Len(scores) }
\* scores.get(category, 0).
ScoreOf(scores, category) ==
    IF category \in Keys(scores)
    THEN (CHOOSE item \in Range(scores) : item.category = category).score
    ELSE 0

\* Lines 836-841 and 855-860: the loops over equipment_indicators.items().
FilenameScores(filename) ==
    Positive([i \in 1..Len(Categories) |->
                 Score(Categories[i], FilenameScore(Categories[i], filename))])
ContentScores(text) ==
    Positive([i \in 1..Len(Categories) |->
                 Score(Categories[i], ContentScore(Categories[i], text))])

\* Lines 863-870: the loop over the set all_categories, which the
\* interpreter may enumerate in any order (order is that enumeration).
TotalScores(fscores, cscores, order) ==
    [i \in 1..Len(order) |->
        Score(order[i], (ScoreOf(fscores, order[i]) * 1) + (ScoreOf(cscores, order[i]) * 2))]

\* max(scores.keys(), key=lambda k: scores[k]): the first key, in the order
\* of the dict, whose score no other exceeds.
BestCategory(scores) ==
    LET i == CHOOSE i \in 1..Len(scores) :
                 /\ \A j \in 1..Len(scores) : scores[j].score <= scores[i].score
                 /\ \A j \in 1..(i - 1) : scores[j].score < scores[i].score
    IN  scores[i].category

RECURSIVE WordSeqs(_, _)
WordSeqs(words, n) ==
    IF n = 0 THEN { << >> }
    ELSE LET shorter == WordSeqs(words, n - 1)
         IN  shorter \cup { Append(t, w) : t \in { u \in shorter : Len(u) = n - 1 }, w \in words }

InitDetect ==
    /\ PYMUPDF_AVAILABLE \in BOOLEAN
    /\ AI_PROCESSING_AVAILABLE = FALSE
    /\ ENABLE_AI = FALSE
    /\ services_available = {}
    /\ pdf_readable \in BOOLEAN
    /\ pdf_text = None
    /\ pc = "idle"
    /\ runs = 0
    /\ attempts = << >>
    /\ last_response = None
    /\ accepted_by = None
    /\ ai_result = None
    /\ all_text = << >>
    /\ inspections = << >>
    /\ invoked = << >>
    /\ extract_outcome = "none"
    /\ cursor = 1
    /\ error = ""
    /\ db = << >>
    /\ processed = FALSE
    /\ processing_errors = None
    /\ returned = None
    /\ chain_names = None
    /\ candidate = None
    /\ validated = None
    /\ revalidated = None
    /\ fallback_result = None
    /\ pdf_path \in WordSeqs(FileWords, MaxNameWords)
    \* A document that cannot be opened has no text to sample.
    /\ sample_text \in IF PYMUPDF_AVAILABLE /\ pdf_readable
                       THEN WordSeqs(SampleWords, MaxSampleWords)
                       ELSE { << >> }
    /\ detect_pc = "start"
    /\ doc = "none"
    /\ filename_scores = << >>
    /\ total_scores = << >>
    /\ document_type = None
    /\ WorkersIdle

detect_frame == << config, pdf_text, pc, runs, ai_vars, chain_vars, extract_outcome, cursor,
                   error, record_vars, chain_names, validator_vars, worker_vars, pdf_path,
                   sample_text >>

\* Lines 821-843: the filename scores, then the test of PYMUPDF_AVAILABLE.
DetectScoreFilename ==
    /\ detect_pc = "start"
    /\ filename_scores' = FilenameScores(pdf_path)
    /\ detect_pc' = IF PYMUPDF_AVAILABLE THEN "open" ELSE "filename"
    /\ UNCHANGED << detect_frame, doc, total_scores, document_type >>

\* Line 846: fitz.open(pdf_path). What it raises is caught at line 877.
DetectOpen ==
    /\ detect_pc = "open"
    /\ IF pdf_readable
       THEN doc' = "open" /\ detect_pc' = "read"
       ELSE doc' = doc /\ detect_pc' = "filename"
    /\ UNCHANGED << detect_frame, filename_scores, total_scores, document_type >>

\* Lines 847-850: the pages are read. Reading a page may raise; the except
\* clause of line 877 logs a warning and falls through to the filename scores.
DetectReadPages ==
    /\ detect_pc = "read"
    /\ \E page_raises \in BOOLEAN :
          detect_pc' = IF page_raises THEN "filename" ELSE "close"
    /\ UNCHANGED << detect_frame, doc, filename_scores, total_scores, document_type >>

\* Line 851: doc.close().
DetectClose ==
    /\ detect_pc = "close"
    /\ doc' = "closed"
    /\ detect_pc' = "combine"
    /\ UNCHANGED << detect_frame, filename_scores, total_scores, document_type >>

\* Lines 853-875: content scores, total scores and the best of them.
DetectCombine ==
    /\ detect_pc = "combine"
    /\ LET content_scores == ContentScores(sample_text)
           all_categories == Keys(filename_scores) \cup Keys(content_scores)
       IN  \E order \in Enumerations(all_categories) :
              /\ total_scores' = TotalScores(filename_scores, content_scores, order)
              /\ IF total_scores' # << >>
                 THEN /\ document_type' = Some(BestCategory(total_scores'))
                      /\ detect_pc' = "done"
                 ELSE /\ document_type' = document_type
                      /\ detect_pc' = "filename"
    /\ UNCHANGED << detect_frame, doc, filename_scores >>

\* Lines 880-886: the filename scores alone, else "general".
DetectFilenameOnly ==
    /\ detect_pc = "filename"
    /\ document_type' = Some(IF filename_scores # << >>
                             THEN BestCategory(filename_scores)
                             ELSE "general")
    /\ detect_pc' = "done"
    /\ UNCHANGED << detect_frame, doc, filename_scores, total_scores >>

NextDetect ==
    \/ DetectScoreFilename
    \/ DetectOpen
    \/ DetectReadPages
    \/ DetectClose
    \/ DetectCombine
    \/ DetectFilenameOnly

SpecDetect == InitDetect /\ [][NextDetect]_vars

\* ------------------- process_inspection_pdf, statement by statement, in runs
\* that share one document: lines 749-809, signals.py lines 10-38 and
\* views.py lines 77-99
\*
\* db, processed and processing_errors are the rows of the database; every
\* run holds its own InspectionPDF instance, loaded when the run begins.
\* Nothing orders the statements of two runs: the signal starts a thread
\* (signals.py line 35) and every request is served on its own.

Workers == {1, 2}

\* What extract_inspections_from_pdf returns for the document.
WorkerExtractions ==
    { << System("Pump A-12", NumberFrom(<< "Inspect coupling guard", "Check seal for leaks" >>, 1)) >>,
      << System("Pump A-12", NumberFrom(<< "Inspect coupling guard" >>, 1)),
         System("Belt Conveyor Inspection", NumberFrom(<< "Check belt tension and adjustment" >>, 1)) >> }

\* The locals of a run that has not begun.
IdleWorker(kind, force) ==
    [kind |-> kind, force |-> force, pc |-> "idle",
     instance |-> [processed |-> FALSE, processing_errors |-> None],
     inspections |-> << >>, cursor |-> 1, system |-> 0, task |-> 1, error |-> "",
     returned |-> None, began_after_others |-> FALSE]

InitWorkers ==
    /\ PYMUPDF_AVAILABLE = TRUE
    /\ AI_PROCESSING_AVAILABLE = FALSE
    /\ ENABLE_AI = FALSE
    /\ services_available = {}
    /\ pdf_readable = TRUE
    /\ pdf_text = None
    /\ pc = "idle"
    /\ runs = 0
    /\ attempts = << >>
    /\ last_response = None
    /\ accepted_by = None
    /\ ai_result = None
    /\ all_text = << >>
    /\ inspections = << >>
    /\ invoked = << >>
    /\ extract_outcome = "none"
    /\ cursor = 1
    /\ error = ""
    /\ db = << >>
    /\ processed = FALSE
    /\ processing_errors = None
    /\ returned = None
    /\ chain_names = None
    /\ candidate = None
    /\ validated = None
    /\ revalidated = None
    /\ fallback_result = None
    /\ DetectIdle
    /\ extraction \in WorkerExtractions
    \* The first run is the thread of the post_save signal or a request to the
    \* process endpoint, the second one a request; a request may force.
    /\ \E kind \in {"signal", "manual"}, force1, force2 \in BOOLEAN :
          /\ kind = "signal" => ~force1
          /\ workers = [w \in Workers |->
                           IF w = 1 THEN IdleWorker(kind, force1)
                           ELSE IdleWorker("manual", force2)]

worker_frame == << config, detect_vars, validator_vars, pdf_text, pc, runs, ai_vars, chain_vars,
                   extract_outcome, cursor, error, returned, chain_names, extraction >>

\* A run fails with the exception e: the except clause of line 802 is next.
Fails(w, e) == [workers EXCEPT ![w].pc = "except", ![w].error = e]

\* InspectionPDF.objects.get(id=...) (signals.py line 20) or self.get_object()
\* (views.py line 83): the run gets its own copy of the row. The endpoint
\* answers at once for a processed document unless force is given (line 87).
WorkerLoad(w) ==
    /\ workers[w].pc = "idle"
    /\ LET instance == [processed |-> processed, processing_errors |-> processing_errors]
           answered == workers[w].kind = "manual" /\ instance.processed /\ ~workers[w].force
       IN  workers' = [workers EXCEPT
                          ![w].instance = instance,
                          ![w].began_after_others =
                              \A v \in Workers \ {w} : workers[v].pc = "done",
                          ![w].pc = IF answered THEN "done" ELSE "extract"]
    /\ UNCHANGED << worker_frame, db, processed, processing_errors >>

\* Line 766: extract_inspections_from_pdf returns the systems or raises.
WorkerExtract(w) ==
    /\ workers[w].pc = "extract"
    /\ \E raises \in BOOLEAN :
          workers' = IF raises
                     THEN Fails(w, "cannot open document")
                     ELSE [workers EXCEPT ![w].inspections = extraction,
                                          ![w].cursor = 1,
                                          ![w].pc = "query"]
    /\ UNCHANGED << worker_frame, db, processed, processing_errors >>

\* Lines 769-780: the query for a system of this name; a system found is
\* skipped. After the last inspection line 797 is next.
WorkerQuery(w) ==
    /\ workers[w].pc = "query"
    /\ workers[w].cursor <= Len(workers[w].inspections)
    /\ \E db_ok \in BOOLEAN :
          workers' =
              IF ~db_ok THEN Fails(w, "database is locked")
              ELSE IF HasSystem(db, workers[w].inspections[workers[w].cursor].name)
              THEN [workers EXCEPT ![w].cursor = @ + 1]
              ELSE [workers EXCEPT ![w].pc = "create_system"]
    /\ UNCHANGED << worker_frame, db, processed, processing_errors >>

\* Lines 783-786: InspectionSystem.objects.create(name=system_name, pdf=inspection_pdf).
WorkerCreateSystem(w) ==
    /\ workers[w].pc = "create_system"
    /\ \E db_ok \in BOOLEAN :
          IF db_ok
          THEN /\ db' = Append(db, System(workers[w].inspections[workers[w].cursor].name, << >>))
               /\ workers' = [workers EXCEPT ![w].system = Len(db) + 1,
                                             ![w].task = 1,
                                             ![w].pc = "create_task"]
          ELSE /\ workers' = Fails(w, "database is locked")
               /\ db' = db
    /\ UNCHANGED << worker_frame, processed, processing_errors >>

\* Lines 789-794: one turn of the loop over the tasks of the inspection, or
\* its end, after which the next inspection is queried.
WorkerCreateTask(w) ==
    /\ workers[w].pc = "create_task"
    /\ LET tasks == workers[w].inspections[workers[w].cursor].tasks
       IN  IF workers[w].task <= Len(tasks)
           THEN \E db_ok \in BOOLEAN :
                   IF db_ok
                   THEN /\ db' = [db EXCEPT ![workers[w].system].tasks =
                                      Append(@, tasks[workers[w].task])]
                        /\ workers' = [workers EXCEPT ![w].task = @ + 1]
                   ELSE /\ workers' = Fails(w, "database is locked")
                        /\ db' = db
           ELSE /\ workers' = [workers EXCEPT ![w].cursor = @ + 1, ![w].pc = "query"]
                /\ db' = db
    /\ UNCHANGED << worker_frame, processed, processing_errors >>

\* Lines 797-800: processed is set on the instance and save() writes the
\* fields of the instance to the row.
WorkerMarkProcessed(w) ==
    /\ workers[w].pc = "query"
    /\ workers[w].cursor > Len(workers[w].inspections)
    /\ processed' = TRUE
    /\ processing_errors' = workers[w].instance.processing_errors
    /\ workers' = [workers EXCEPT ![w].instance.processed = TRUE,
                                  ![w].returned = Some(TRUE),
                                  ![w].pc = "done"]
    /\ UNCHANGED << worker_frame, db >>

\* Lines 802-809: the message is set on the instance and save() writes the
\* fields of the instance to the row.
WorkerHandleError(w) ==
    /\ workers[w].pc = "except"
    /\ LET error_message == Some("Error processing PDF: " \o workers[w].error)
       IN  /\ processing_errors' = error_message
           /\ processed' = workers[w].instance.processed
           /\ workers' = [workers EXCEPT ![w].instance.processing_errors = error_message,
                                         ![w].returned = Some(FALSE),
                                         ![w].pc = "done"]
    /\ UNCHANGED << worker_frame, db >>

NextWorkers ==
    \/ \E w \in Workers : WorkerLoad(w)
    \/ \E w \in Workers : WorkerExtract(w)
    \/ \E w \in Workers : WorkerQuery(w)
    \/ \E w \in Workers : WorkerCreateSystem(w)
    \/ \E w \in Workers : WorkerCreateTask(w)
    \/ \E w \in Workers : WorkerMarkProcessed(w)
    \/ \E w \in Workers : WorkerHandleError(w)

SpecWorkers == InitWorkers /\ [][NextWorkers]_vars

\* ------------------------------------------------------------------ claims

\* C1: for every input PDF, a corrupt or zero-byte file included,
\* extract_inspections_from_pdf returns rather than raises, and what it
\* returns has at least one system, every system with at least one task.
C1_ExtractAlwaysReturnsSystems ==
    /\ extract_outcome # "raised"
    /\ extract_outcome = "returned" =>
          /\ inspections # << >>
          /\ \A i \in 1..Len(inspections) : inspections[i].tasks # << >>

\* C2: within one process_pdf call the providers are attempted in the order
\* OpenAI, Claude, Google, each at most once, only if configured, and none
\* after a result has been accepted.
C2_ProvidersInOrderOnce ==
    LET rank == [p \in Providers |->
                    CASE p = "openai" -> 1 [] p = "claude" -> 2 [] p = "google" -> 3]
    IN  /\ \A i, j \in 1..Len(attempts) : i < j => rank[attempts[i]] < rank[attempts[j]]
        /\ \A i \in 1..Len(attempts) : attempts[i] \in services_available
        /\ IsSome(accepted_by) =>
              /\ attempts # << >>
              /\ attempts[Len(attempts)] = Get(accepted_by)
        \* Every configured provider before the current position was attempted.
        /\ pc \in {"claude", "google", "ai_gate"} /\ ~IsSome(accepted_by) =>
              \A p \in services_available :
                  rank[p] < (CASE pc = "claude" -> 2 [] pc = "google" -> 3 [] OTHER -> 4)
                     => \E i \in 1..Len(attempts) : attempts[i] = p

\* Claude's result was accepted although Google is configured too: Google is
\* not attempted.
C2_Witness ==
    /\ pc = "ai_gate"
    /\ accepted_by = Some("claude")
    /\ attempts = << "openai", "claude" >>
    /\ "google" \in services_available

\* The result of the last provider call was accepted exactly when it passed
\* its provider's threshold.
C3_AcceptedIffOverFloor ==
    LET floor == [p \in Providers |->
                     CASE p = "openai" -> 70 [] p = "claude" -> 60 [] p = "google" -> -1]
    IN  IsSome(last_response) /\ ~Get(last_response).raised =>
           LET call == Get(last_response)
               result == Get(call.result)
           IN  accepted_by = Some(call.provider)
                  <=> (result.success /\ result.confidence > floor[call.provider])

\* The three tests on the results the providers can return.
C3_Boundaries ==
    LET results == { Get(validate_ai_response(d).result) :
                        d \in { e \in ProviderPayloads : validate_ai_response(e).is_valid } }
    IN  \A r \in results :
           /\ r.success /\ r.confidence = 65 => ~OpenAIAccepts(r) /\ GoogleAccepts(r)
           /\ r.success /\ r.confidence = 70 => ~OpenAIAccepts(r) /\ ClaudeAccepts(r)
           /\ r.success /\ r.confidence = 60 => ~ClaudeAccepts(r) /\ GoogleAccepts(r)
           /\ ~r.success => ~OpenAIAccepts(r) /\ ~ClaudeAccepts(r) /\ ~GoogleAccepts(r)

\* A call that returned a result which was not accepted is followed by the
\* next provider.
C3_GatedOutGoesOn ==
    Len(attempts') > Len(attempts) /\ ~Get(last_response').raised /\ accepted_by' = None
    => pc' = (CASE pc = "openai" -> "claude" [] pc = "claude" -> "google" [] OTHER -> "ai_gate")

\* C3: OpenAI's result is accepted only with success and confidence > 0.7,
\* Claude's only with success and confidence > 0.6, Google's whenever success
\* is true; a result with confidence 0.65 falls through from OpenAI and is
\* accepted by Google's test; a result that fails its gate leads to the next
\* provider, not to an error.
C3_Gates == [](C3_AcceptedIffOverFloor /\ C3_Boundaries) /\ [][C3_GatedOutGoesOn]_vars

\* OpenAI answered success with confidence 0.65: not accepted, Claude is next.
C3_Witness ==
    /\ pc = "claude"
    /\ IsSome(last_response)
    /\ Get(last_response).provider = "openai"
    /\ ~Get(last_response).raised
    /\ Get(Get(last_response).result).success
    /\ Get(Get(last_response).result).confidence = 65
    /\ accepted_by = None

\* process_pdf hands its caller a result.
C4_AlwaysAResult == pc = "ai_gate" => IsSome(ai_result) /\ Get(ai_result).systems # << >>

\* From inside process_pdf the only way out is its return; a call that raised
\* is followed by the next provider.
C4_RaiseGoesOn ==
    /\ pc \in {"openai", "claude", "google"} => pc' \in {"openai", "claude", "google", "ai_gate"}
    /\ Len(attempts') > Len(attempts) /\ Get(last_response').raised
       => /\ pc' = (CASE pc = "openai" -> "claude" [] pc = "claude" -> "google"
                      [] OTHER -> "ai_gate")
          /\ accepted_by' = None

\* C4: what one provider attempt raises (HTTP error, unparseable JSON, schema
\* validation failure, missing images or text) is caught and process_pdf goes
\* on to the next provider; process_pdf never raises and always returns an
\* AIExtractionResult.
C4_AttemptsNeverRaise == []C4_AlwaysAResult /\ [][C4_RaiseGoesOn]_vars

\* OpenAI's body was not JSON, Claude's payload failed the schema: process_pdf
\* still returns, with the fallback result.
C4_Witness ==
    /\ pc = "ai_gate"
    /\ attempts = << "openai", "claude" >>
    /\ Get(last_response).raised
    /\ IsSome(Get(Get(last_response).response).payload)
    /\ Get(ai_result).processing_method = "fallback"

\* C5: when no provider result is accepted, extract_inspections_from_pdf runs
\* the heuristic chain and returns its output; the validator's fallback result
\* is never what the caller receives.
C5_NoAcceptanceRunsChain ==
    LET Systems(i) == invoked[i].systems
        chain_output == Flatten([i \in 1..Len(invoked) |-> Systems(i)])
    IN  /\ pc = "ai_gate" /\ accepted_by = None => ~CallerAccepts(Get(ai_result))
        /\ IsSome(ai_result) /\ accepted_by = None /\ extract_outcome # "running"
           => /\ extract_outcome = "returned"
              /\ invoked # << >>
              /\ inspections = chain_output
              /\ \A i \in 1..Len(inspections) :
                    inspections[i].name # "General Inspection Checklist"

\* C6: with the AI-enabled flag false, extract_inspections_from_pdf attempts
\* no provider, even if API keys are present.
C6_DisabledAttemptsNoProvider == ~ENABLE_AI => attempts = << >>

\* C7: the chain returns exactly the output of the first strategy, in priority
\* order, that produced a non-empty list; no strategy after that one is invoked
\* and no later strategy's systems are added.
C7_FirstNonEmptyStrategyOnly ==
    LET priority == << "custom", "belt", "syscheck", "generic", "items", "fallback" >>
        NonEmpty(i) == invoked[i].systems # << >>
        Rank(name) == CHOOSE k \in 1..Len(priority) : priority[k] = name
    IN  /\ \A i, j \in 1..Len(invoked) :
              i < j => Rank(invoked[i].name) < Rank(invoked[j].name)
        /\ \A i \in 1..Len(invoked) : NonEmpty(i) => i = Len(invoked)
        /\ extract_outcome = "returned" /\ invoked # << >> =>
              inspections = invoked[Len(invoked)].systems

\* C8: a strategy that raises is treated as having produced no system and the
\* chain continues; the exception does not abort extract_inspections_from_pdf.
C8_StrategyExceptionContained ==
    \A i \in 1..Len(invoked) :
        invoked[i].raised =>
           /\ extract_outcome # "raised"
           /\ pc # "except"
           /\ pc \in {"persist", "idle"} => Len(invoked) > i

\* C9: after a run of process_inspection_pdf the processed flag is true, also
\* when extraction or persistence raised (the error text is then recorded);
\* no run ends with the document unprocessed.
C9_ProcessedAfterAnyRun ==
    runs >= 1 /\ pc = "idle" =>
       /\ processed
       /\ returned = Some(FALSE) => IsSome(processing_errors)

\* C10: for every candidate validate_ai_response accepts, total_systems is the
\* number of systems and total_tasks the sum of the task counts, whatever
\* totals the candidate supplied; a wrong supplied total is corrected and
\* never causes rejection.
C10_TotalsRecomputed ==
    LET Counted(d) == [d EXCEPT !.total_systems = Some(Len(Get(d.systems))),
                                !.total_tasks = Some(SumTasks(Get(d.systems)))]
        Supplied(d) == IsSome(d.systems) /\ IsSome(d.total_systems) /\ IsSome(d.total_tasks)
    IN  /\ IsSome(last_response) /\ IsSome(Get(last_response).response)
           /\ IsSome(Get(Get(last_response).response).payload) =>
              LET d == Get(Get(Get(last_response).response).payload)
                  accepted == ~Get(last_response).raised
              IN  /\ accepted = validate_ai_response(d).is_valid
                  /\ accepted =>
                        LET result == Get(Get(last_response).result) IN
                        /\ result.total_systems = Len(result.systems)
                        /\ result.total_tasks = SumTasks(result.systems)
                  /\ Supplied(d) => (accepted <=> validate_ai_response(Counted(d)).is_valid)
        /\ IsSome(ai_result) =>
              /\ Get(ai_result).total_systems = Len(Get(ai_result).systems)
              /\ Get(ai_result).total_tasks = SumTasks(Get(ai_result).systems)

\* A provider sent 7 systems and 0 tasks as totals with one system of two
\* tasks: the payload was accepted, with the totals 1 and 2.
C10_Witness ==
    /\ IsSome(last_response)
    /\ IsSome(Get(last_response).response)
    /\ IsSome(Get(Get(last_response).response).payload)
    /\ Get(Get(Get(last_response).response).payload).total_systems = Some(7)
    /\ Get(Get(Get(last_response).response).payload).total_tasks = Some(0)
    /\ ~Get(last_response).raised
    /\ Get(Get(last_response).result).total_systems = 1
    /\ Get(Get(last_response).result).total_tasks = 2

\* C11: for every candidate validate_ai_response accepts, in every system the
\* task at list position i has number i, whatever numbers the candidate
\* supplied, and the tasks are in the candidate's order.
C11_TasksRenumberedInOrder ==
    IsSome(validated) /\ Get(validated).is_valid =>
       LET supplied == Get(Get(candidate).systems)
           systems == Get(Get(validated).result).systems
       IN  /\ Len(systems) = Len(supplied)
           /\ \A i \in 1..Len(systems) :
                 /\ Len(systems[i].tasks) = Len(supplied[i].tasks)
                 /\ \A j \in 1..Len(systems[i].tasks) :
                       /\ systems[i].tasks[j].number = j
                       /\ systems[i].tasks[j].description.id
                             = supplied[i].tasks[j].description.id

\* A candidate whose two tasks are numbered 2 and 1 was accepted.
C11_Witness ==
    /\ IsSome(validated)
    /\ Get(validated).is_valid
    /\ Len(Get(Get(candidate).systems)) = 1
    /\ Len(Get(Get(candidate).systems)[1].tasks) = 2
    /\ Get(Get(candidate).systems)[1].tasks[1].number = Some(2)
    /\ Get(Get(candidate).systems)[1].tasks[2].number = Some(1)

\* C12: every AIExtractionResult that validate_ai_response,
\* create_fallback_result or process_pdf produces has a confidence between 0.0
\* and 1.0 inclusive, also when a provider payload carried 1.7 or -0.2.
C12_ConfidenceInRange ==
    /\ IsSome(last_response) /\ ~Get(last_response).raised =>
          /\ Get(Get(last_response).result).confidence >= 0
          /\ Get(Get(last_response).result).confidence <= 100
    /\ IsSome(ai_result) =>
          /\ Get(ai_result).confidence >= 0
          /\ Get(ai_result).confidence <= 100

\* The only provider configured answered with confidence 1.7: process_pdf
\* returned a result with a confidence in the range.
C12_Witness ==
    /\ pc = "ai_gate"
    /\ IsSome(last_response)
    /\ IsSome(Get(last_response).response)
    /\ IsSome(Get(Get(last_response).response).payload)
    /\ Get(Get(Get(last_response).response).payload).confidence = Some(170)
    /\ IsSome(ai_result)
    /\ Get(ai_result).confidence = 0

\* C13: validate_ai_response normalises the confidence instead of rejecting:
\* an otherwise valid candidate with a confidence above 1 validates with 1.0,
\* below 0 with 0.0, absent with 0.0.
C13_ConfidenceNormalised ==
    IsSome(validated) =>
       LET d == Get(candidate)
           otherwise_valid == validate_ai_response([d EXCEPT !.confidence = Some(50)]).is_valid
           normalised == IF ~IsSome(d.confidence) THEN 0
                         ELSE IF Get(d.confidence) > 100 THEN 100
                         ELSE IF Get(d.confidence) < 0 THEN 0
                         ELSE Get(d.confidence)
       IN  otherwise_valid =>
              /\ Get(validated).is_valid
              /\ Get(Get(validated).result).confidence = normalised

\* C14: a candidate is accepted exactly when every system name has, after
\* trimming, a length of 3 to 200 and every task description a length of 10
\* to 500 (the other fields being in order), so padding decides nothing; the
\* names and descriptions of an accepted result are trimmed.
C14_OtherwiseInOrder(d) ==
    /\ IsSome(d.success)
    /\ IsSome(d.confidence)
    /\ Get(d.confidence) >= ConfidenceMin
    /\ Get(d.confidence) <= ConfidenceMax
    /\ IsSome(d.systems)
    /\ Get(d.systems) # << >>
    /\ \A i \in 1..Len(Get(d.systems)) : Get(d.systems)[i].tasks # << >>
    /\ IsSome(d.total_systems)
    /\ IsSome(d.total_tasks)

C14_TrimmedLengthsInRange(d) ==
    \A i \in 1..Len(Get(d.systems)) :
        LET sys == Get(d.systems)[i] IN
        /\ Strip(sys.name).core >= NameMinLength
        /\ Strip(sys.name).core <= NameMaxLength
        /\ \A j \in 1..Len(sys.tasks) :
              /\ Strip(sys.tasks[j].description).core >= DescriptionMinLength
              /\ Strip(sys.tasks[j].description).core <= DescriptionMaxLength

C14_TrimmedLengthsDecide ==
    (IsSome(validated) /\ C14_OtherwiseInOrder(Get(candidate))) =>
        /\ Get(validated).is_valid <=> C14_TrimmedLengthsInRange(Get(candidate))
        /\ Get(validated).is_valid =>
              \A i \in 1..Len(Get(Get(validated).result).systems) :
                 LET sys == Get(Get(validated).result).systems[i] IN
                 /\ RawLen(sys.name) = sys.name.core
                 /\ \A j \in 1..Len(sys.tasks) :
                       RawLen(sys.tasks[j].description) = sys.tasks[j].description.core

\* C15: validating the data of an accepted result again succeeds, with an
\* equal result.
C15_RevalidationIdempotent ==
    IsSome(revalidated) =>
        /\ Get(revalidated).is_valid
        /\ Get(revalidated).result = Get(validated).result

\* C16: for every error message, create_fallback_result returns a result
\* that is valid by the schema, with success false, confidence 0.0, the one
\* system 'General Inspection Checklist' with three tasks numbered 1, 2, 3,
\* total_systems 1, total_tasks 3, and one warning that contains the message.
C16_FallbackResultFixed ==
    IsSome(fallback_result) =>
        LET result == Get(fallback_result).result
            error_message == Get(fallback_result).error_message
        IN  /\ validate_ai_response(ResultData(result)) = [is_valid |-> TRUE, result |-> Some(result)]
            /\ result.success = FALSE
            /\ result.confidence = 0
            /\ Len(result.systems) = 1
            /\ result.systems[1].name = Text("General Inspection Checklist", 28)
            /\ Len(result.systems[1].tasks) = 3
            /\ \A j \in 1..3 : result.systems[1].tasks[j].number = j
            /\ result.total_systems = 1
            /\ result.total_tasks = 3
            /\ result.warnings = << "AI processing failed: " \o error_message >>

C16_Witness ==
    /\ IsSome(fallback_result)
    /\ Get(fallback_result).error_message = "Critical processing error: timed out"
    /\ Get(fallback_result).result.warnings =
          << "AI processing failed: Critical processing error: timed out" >>
    /\ Get(fallback_result).result.total_tasks = 3

\* C17: a system whose name the document already has is skipped, with its
\* tasks: every step leaves the rows as they are or adds one system, of a
\* name the document did not have, with its tasks; so the document has at most
\* one system of a name, after any number of runs and also when one extraction
\* output lists a name twice.
C17_OneSystemPerName ==
    \A i, j \in 1..Len(db) : db[i].name = db[j].name => i = j

C17_NoRowsForExistingName ==
    \/ db' = db
    \/ /\ Len(db') = Len(db) + 1
       /\ SubSeq(db', 1, Len(db)) = db
       /\ \A i \in 1..Len(db) : db[i].name # db'[Len(db')].name

C17_RerunsCreateNothingTwice == [](C17_OneSystemPerName) /\ [][C17_NoRowsForExistingName]_vars

\* The second run is over, its extraction listed one name twice and every
\* name it listed was in the rows before it began.
C17_Witness ==
    /\ runs = 2
    /\ pc = "idle"
    /\ returned = Some(TRUE)
    /\ Len(inspections) = 2
    /\ inspections[1].name = inspections[2].name
    /\ Len(db) = 1
    /\ db[1].name = inspections[1].name

\* C20: two runs of the heuristic strategies on the same text return the same
\* system names in the same order: the names the strategies return at the
\* end of a run are those they returned in the run before.
C20_SameNamesAsBefore ==
    (pc = "fallback" /\ pc' = "persist" /\ IsSome(chain_names)) =>
        (Names(inspections') = Get(chain_names))

C20_ChainDeterministic == [][C20_SameNamesAsBefore]_vars

\* C18: in every list extract_inspections_from_pdf returns, the tasks of a
\* system are in the order of the source text and no strategy re-sorts them
\* by the numbers printed there: of two tasks that are the texts of two
\* numbered lines of one form (both with a dot after the number, or both
\* without, so that one pattern finds both), the one whose line comes first
\* in the text comes first.
\* (C18_TaskText is the text of a numbered line after its number; a text
\* that two lines of the document share is left out.)
C18_TaskText(line) ==
    CASE line = "D1" -> "Inspect drive coupling guard;"
      [] line = "D2" -> "Check belt tension daily;"
      [] line \in {"N1", "HG"} -> "Check worn or missing blades;"
      [] line = "N2" -> "Check scraper frames and blades;"
      [] OTHER -> ""

C18_WithDot(line) == line \in {"D1", "D2"}

C18_OnlyAt(text, p) ==
    /\ C18_TaskText(text[p]) # ""
    /\ \A r \in 1..Len(text) : C18_TaskText(text[r]) = C18_TaskText(text[p]) => r = p

C18_TasksInSourceOrder ==
    extract_outcome = "returned" =>
        \A k \in 1..Len(inspections) :
            LET tasks == inspections[k].tasks IN
            \A i, j \in 1..Len(tasks) :
                \A p, q \in 1..Len(all_text) :
                    ( /\ i < j
                      /\ C18_OnlyAt(all_text, p)
                      /\ C18_OnlyAt(all_text, q)
                      /\ C18_WithDot(all_text[p]) = C18_WithDot(all_text[q])
                      /\ tasks[i].description = C18_TaskText(all_text[p])
                      /\ tasks[j].description = C18_TaskText(all_text[q]) )
                    => p < q

\* C19: in every list extract_inspections_from_pdf returns, the task at
\* position i of a system carries the number i.
C19_TasksNumberedByPosition ==
    extract_outcome = "returned" =>
        \A k \in 1..Len(inspections) :
            \A i \in 1..Len(inspections[k].tasks) : inspections[k].tasks[i].number = i

\* ------------------------------------------------------------------ C21
\* C21: with no AI result accepted, every text that holds the titles of belt
\* scraper systems 1 and 2 and of no other numbered system comes back as
\* exactly two systems, one per title, each with seven tasks of which one is
\* "Check worn or missing blades" (the line abstraction ends every line,
\* and so every description taken from a line, with ";").
C21_BladesTask(task) ==
    task.description \in {"Check worn or missing blades", "Check worn or missing blades;"}

C21_TwoTitlesOnly ==
    /\ IsSome(ai_result) => ~CallerAccepts(Get(ai_result))
    /\ "T1" \in Range(all_text)
    /\ "T2" \in Range(all_text)
    /\ Range(all_text) \cap {"TS", "PS"} = {}

C21_TwoSystemsOfSevenTasks ==
    (pc = "persist" /\ extract_outcome = "returned" /\ C21_TwoTitlesOnly) =>
        /\ Len(inspections) = 2
        /\ {inspections[i].name : i \in 1..2} =
              {"Belt Scraper system 1-Inspection Checklist",
               "Belt Scraper system 2-Inspection Checklist"}
        /\ \A i \in 1..2 :
              /\ Len(inspections[i].tasks) = 7
              /\ \E k \in 1..7 : C21_BladesTask(inspections[i].tasks[k])

\* ------------------------------------------------------------------ C22
\* C22: create_intelligent_fallback returns for every text one system with
\* five tasks numbered 1 to 5: the conveyor template when the text mentions
\* belt or conveyor, else the electrical one when it mentions electrical or
\* motor, else the hydraulic one when it mentions pump or hydraulic, else the
\* generic one; and an empty text with no AI result accepted comes out of the
\* pipeline as the one system "Equipment Inspection Checklist" with five
\* tasks.
C22_Template(text) ==
    CASE AnyLine(text, MentionsConveyor) -> "Belt Conveyor Inspection"
      [] ~AnyLine(text, MentionsConveyor) /\ AnyLine(text, MentionsElectrical) ->
            "Electrical Equipment Inspection"
      [] ~AnyLine(text, MentionsConveyor) /\ ~AnyLine(text, MentionsElectrical)
            /\ AnyLine(text, MentionsHydraulic) ->
            "Pump and Hydraulic System Inspection"
      [] OTHER -> "Equipment Inspection Checklist"

C22_OneSystemOfFive(systems, name) ==
    /\ Len(systems) = 1
    /\ systems[1].name = name
    /\ Len(systems[1].tasks) = 5
    /\ \A k \in 1..5 : systems[1].tasks[k].number = k

C23_Sampled == IF doc = "closed" THEN sample_text ELSE << >>

C23_Score(category) ==
    (SumCounts(equipment_indicators[category], pdf_path) * 1)
        + (SumCounts(equipment_indicators[category], C23_Sampled) * 2)

C23_HighestScoreReturned ==
    detect_pc = "done" =>
        /\ \A i \in 1..Len(Categories) :
              C23_Score(Categories[i]) <= C23_Score(Get(document_type))
        /\ (\A i \in 1..Len(Categories) : C23_Score(Categories[i]) = 0) =>
              Get(document_type) = "general"
        /\ (/\ pdf_path = << "electrical", "panel", "inspection" >>
            /\ \A i \in 1..Len(Categories) : ContentScore(Categories[i], C23_Sampled) = 0) =>
              Get(document_type) = "electrical"

\* ------------------------------------------------------------------ C24
\* C24: when several categories share the highest total score, the category
\* returned is the one among them that the keyword mapping declares first,
\* with combined scores as well as with filename scores alone.
C24_ScoresUsed == IF total_scores # << >> THEN total_scores ELSE filename_scores

C24_IsHighest(category) ==
    /\ category \in Keys(C24_ScoresUsed)
    /\ \A c \in Keys(C24_ScoresUsed) :
          ScoreOf(C24_ScoresUsed, c) <= ScoreOf(C24_ScoresUsed, category)

C24_FirstDeclaredWinsTies ==
    (detect_pc = "done" /\ C24_ScoresUsed # << >>) =>
        \E i \in 1..Len(Categories) :
            /\ Get(document_type) = Categories[i]
            /\ C24_IsHighest(Categories[i])
            /\ \A j \in 1..(i - 1) : ~C24_IsHighest(Categories[j])

\* ------------------------------------------------------------------ C25
\* C25: a function that opened the PDF has closed the handle when it is
\* left, whichever way it is left, also when reading a page raised after the
\* document was opened.
C25_HandleClosedOnExit ==
    detect_pc = "done" => doc # "open"

\* ------------------------------------------------------------------ C26
\* C26: when runs of process_inspection_pdf for one document overlap (the
\* thread of the signal and a request, or two requests), the document still
\* has at most one system of a name and no task is created twice.
C26_OneSystemPerNameWhenConcurrent ==
    /\ \A i, j \in 1..Len(db) : db[i].name = db[j].name => i = j
    /\ \A i \in 1..Len(db) :
          \A k, l \in 1..Len(db[i].tasks) : db[i].tasks[k] = db[i].tasks[l] => k = l

\* ------------------------------------------------------------------ C27
\* C27: after runs made one after the other, a run that failed while it was
\* creating rows and a later run that succeeded included, every system the
\* document has holds the complete list of tasks extraction produced for it.
C27_Complete(row) ==
    \E i \in 1..Len(extraction) :
        extraction[i].name = row.name /\ extraction[i].tasks = row.tasks

C27_RerunSucceeded ==
    /\ \A w \in Workers : workers[w].pc = "done"
    /\ \E w \in Workers :
          workers[w].began_after_others /\ workers[w].returned = Some(TRUE)

C27_SystemsCompleteAfterRerun ==
    C27_RerunSucceeded => \A i \in 1..Len(db) : C27_Complete(db[i])

\* ------------------------------------------------------------------ C28
\* C28: a result that process_pdf returns with success = true has a
\* confidence of at least 0.6, so the gate of extract_inspections_from_pdf
\* (success and confidence > 0.3) lets every such result pass; in a run that
\* called process_pdf the heuristic chain runs exactly when process_pdf
\* returned its fallback result, the one with success = false.
C28_SuccessfulResultPassesGate ==
    (IsSome(ai_result) /\ Get(ai_result).success) =>
        /\ Get(ai_result).confidence >= 60
        /\ CallerAccepts(Get(ai_result))

C28_ChainOnlyAfterFallback ==
    pc = "ai_gate" =>
        /\ (pc' = "legacy_text") <=> ~Get(ai_result).success
        /\ ~Get(ai_result).success <=>
              (Get(ai_result) = create_fallback_result("All AI services unavailable or failed"))

C28_GatesAgree ==
    [](C28_SuccessfulResultPassesGate) /\ [][C28_ChainOnlyAfterFallback]_vars

C28_Witness ==
    /\ pc = "persist"
    /\ IsSome(ai_result)
    /\ Get(ai_result).success
    /\ Get(ai_result).confidence = 60
    /\ accepted_by = Some("google")
    /\ invoked = << >>
    /\ \E i \in 1..Len(attempts) : attempts[i] = "claude"

\* ------------------------------------------------------------------ C29
\* C29: with a Google API key configured process_pdf never returns the
\* fallback result: whenever neither OpenAI nor Claude is accepted, the
\* Google attempt gives the same successful result for every document (the
\* one system "General Equipment Inspection" with one task, confidence 0.6),
\* and the heuristic chain is not reached.
C29_GoogleConfigured == AI_PROCESSING_AVAILABLE /\ IsAvailable("google")

C29_FixedGoogleResult(result) ==
    /\ result.success
    /\ result.confidence = 60
    /\ Len(result.systems) = 1
    /\ result.systems[1].name.id = "General Equipment Inspection"
    /\ Len(result.systems[1].tasks) = 1

C29_GoogleShadowsChain ==
    C29_GoogleConfigured =>
        /\ IsSome(ai_result) =>
              /\ Get(ai_result).success
              /\ accepted_by \in {Some("openai"), Some("claude"), Some("google")}
              /\ accepted_by = Some("google") => C29_FixedGoogleResult(Get(ai_result))
        /\ pc # "legacy_text"
        /\ invoked = << >>

C29_Witness ==
    /\ C29_GoogleConfigured
    /\ pc = "persist"
    /\ attempts = << "openai", "claude", "google" >>
    /\ accepted_by = Some("google")
    /\ C29_FixedGoogleResult(Get(ai_result))
    /\ Names(inspections) = << "General Equipment Inspection" >>

\* ------------------------------------------------------------------ C30
\* C30: process_inspection_pdf changes processed only on its success path,
\* where it sets it to true, and processing_errors only on its failure path:
\* a run that fails leaves processed as it was, and a run that succeeds
\* leaves the error text of an earlier failed run as it was.
C30_Succeeds(w) == workers[w].pc = "query" /\ workers'[w].returned = Some(TRUE)
C30_FailsRun(w) == workers[w].pc = "except" /\ workers'[w].returned = Some(FALSE)

C30_OwnPathOnly ==
    /\ processed' # processed =>
          /\ processed'
          /\ \E w \in Workers : C30_Succeeds(w)
    /\ processing_errors' # processing_errors =>
          \E w \in Workers : C30_FailsRun(w)

C30_FlagsChangeOnOwnPathOnly == [][C30_OwnPathOnly]_vars

====
